---- MODULE Spec2Model ----
(***************************************************************************)
(* A model of the cmsweb exporters: every exporter is one process that     *)
(* answers pull requests; a pull runs Collect, which takes the exporter    *)
(* mutex, fetches the source once, maps the response to samples and        *)
(* releases the mutex.  The exporter program is chosen in Init (kind), the *)
(* source's answers are drawn from bounded sets.                           *)
(***************************************************************************)
EXTENDS Integers, Sequences, FiniteSets, TLC

\* ---------------------------------------------------------------- bounds
\* number of clients that may have a pull request open at the same time
NumPulls == 2
\* number of pull requests issued in one behaviour
MaxPulls == 3
\* the clock (seconds) runs from 1 to MaxTime
MaxTime == 4

Pullers == 1..NumPulls

\* ------------------------------------------------------- exporter programs
\* http      src/http_exporter.go          das2go    src/das2go_exporter.go
\* das2go2   src/unnamed/part_003          wmcore1   src/unnamed/part_000
\* wmcore    src/unnamed/part_002          cpy       src/unnamed/part_001
\* eos       src/unnamed/part_004          quota     src/quota_exporter.go
\* openstack src/openstack/quota_exporter.go
\* pingpong  src/http_pingpong.go
Collectors == {"http", "das2go", "das2go2", "wmcore1", "wmcore", "cpy", "eos",
               "quota", "openstack"}
Kinds == Collectors \cup {"pingpong"}

\* exporters whose source is an HTTP endpoint
HttpKinds == {"http", "das2go", "das2go2", "wmcore1", "wmcore", "cpy", "pingpong"}
\* exporters whose source is an external script
CmdKinds == {"quota", "openstack"}

\* ------------------------------------------------------------ JSON values
\* A decoded JSON value at one path of a snapshot: its type tag and, for a
\* number, its value (for an array, its length).
Absent == [t |-> "absent", n |-> 0]
Null == [t |-> "null", n |-> 0]
Str == [t |-> "str", n |-> 0]
Obj == [t |-> "obj", n |-> 0]
Num(x) == [t |-> "num", n |-> x]
Arr(len) == [t |-> "arr", n |-> len]

\* v.(float64): the type assertion panics unless the value is a number
\* (a missing map entry is a nil interface and panics too).
AssertFloat(c) == [ok |-> c.t = "num", v |-> IF c.t = "num" THEN c.n ELSE 0]

\* a lookup that drops the value found
LookupFloatDropped(c) == [ok |-> TRUE, v |-> 0]

\* if v, ok := rec[key]; ok { x = v.(float64) }: the zero value when the key
\* is absent, the assertion otherwise.
LookupFloat(c) == IF c.t = "absent" THEN [ok |-> TRUE, v |-> 0] ELSE AssertFloat(c)

\* one emitted sample: ch <- prometheus.MustNewConstMetric(desc, _, value, labels...)
\* the value is v/den (den = 1 but for a computed mean)
Sample(name, v) == [name |-> name, label |-> "", v |-> v, den |-> 1]
LSample(name, label, v) == [name |-> name, label |-> label, v |-> v, den |-> 1]

\* what collect did: the samples it sent, whether it returned an error,
\* whether it panicked, whether it called log.Fatal
Done(samples) == [out |-> samples, err |-> FALSE, panic |-> FALSE, fatal |-> FALSE]
Failed == [out |-> <<>>, err |-> TRUE, panic |-> FALSE, fatal |-> FALSE]
Panicked(samples) == [out |-> samples, err |-> FALSE, panic |-> TRUE, fatal |-> FALSE]
Fatal == [out |-> <<>>, err |-> FALSE, panic |-> FALSE, fatal |-> TRUE]

\* --------------------------------------------------------------- snapshots
\* The keys the das2go status page is read at (nested keys are written with
\* their parents).
Das2goPaths == {"getCalls", "postCalls", "getRequests", "postRequests",
    "Memory", "Memory.Virtual", "Memory.Virtual.usedPercent",
    "Memory.Virtual.total", "Memory.Virtual.used", "Memory.Virtual.free",
    "Memory.Swap", "Memory.Swap.usedPercent",
    "MemStats", "MemStats.Sys", "MemStats.Alloc", "MemStats.TotalAlloc",
    "MemStats.HeapSys", "MemStats.StackSys",
    "CPU", "Load", "Load.load1", "Load.load5", "Load.load15",
    "OpenFiles", "NGo", "NThreads", "Uptime", "Connections"}

\* the keys that hold an object or an array in a well-formed das2go page
Das2goObjects == {"Memory", "Memory.Virtual", "Memory.Swap", "MemStats", "Load"}
Das2goArrays == {"CPU", "OpenFiles", "Connections"}

\* the keys of the older wmcore status page (a flat JSON object)
Wmcore1Paths == {"memory_percent", "cpu_percent", "num_threads", "num_fds",
    "uptime", "connections"}

\* the keys of the request-manager page {"result": [{"server": {...}}]}
WmcorePaths == {"result", "result.0", "server", "server.uptime",
    "server.memory_percent", "server.cpu_percent", "server.cpu_num",
    "server.time", "server.memory_full_info", "server.memory_full_info.vms",
    "server.memory_full_info.rss", "server.memory_full_info.swap",
    "server.memory_full_info.pss", "server.memory_full_info.uss",
    "server.cpu_times", "server.cpu_times.system", "server.cpu_times.user",
    "server.cpu_times.children_system", "server.cpu_times.children_user"}
WmcoreObjects == {"result.0", "server", "server.memory_full_info", "server.cpu_times"}

\* the keys of the CherryPy cpstats page: one "...Server..." section and one
\* "...Application..." section
CpyServerKeys == {"Server.Accepts", "Server.Accepts/sec", "Server.Bytes Read",
    "Server.Read Throughput", "Server.Write Throughput", "Server.Socket Errors",
    "Server.Threads", "Server.Threads Idle", "Server.Requests", "Server.Queue"}
CpyAppKeys == {"Application.Bytes Read/Request", "Application.Bytes Read/Second",
    "Application.Bytes Written/Request", "Application.Bytes Written/Second",
    "Application.Current Requests", "Application.Current Time",
    "Application.Requests/Second", "Application.Total Bytes Read",
    "Application.Total Bytes Written", "Application.Total Requests",
    "Application.Total Time", "Application.Uptime"}
CpyPaths == {"Server", "Server.Worker Threads", "Application",
    "Application.Requests"} \cup CpyServerKeys \cup CpyAppKeys

\* the keys quota.sh prints: as JSON for quota_exporter.go, as YAML for
\* openstack/quota_exporter.go
QuotaPaths == {"total_cpus", "cpus_used", "total_ram", "ram_used",
    "total_instances", "instances_used", "total_volume", "volumes_used",
    "total_volume_size", "total_volume_size_used", "total_shares",
    "shares_used", "shares_size", "shares_size_used"}
OpenstackPaths == {"cpus_total", "cpus_used", "ram_total_gbytes",
    "ram_used_gbytes", "instances_total", "instances_used", "volumes_total",
    "volumes_used", "volumes_size_total_gbytes", "volumes_size_used_gbytes",
    "shares_total", "shares_used", "shares_size_total_gbytes",
    "shares_size_used_gbytes"}

AllPaths == Das2goPaths \cup Wmcore1Paths \cup WmcorePaths \cup CpyPaths
            \cup QuotaPaths \cup OpenstackPaths

\* one connection entry of the Connections array: its JSON type and, for an
\* object, the value under "status"
Conn(status) == [t |-> "obj", status |-> status]
BadConn == [t |-> "str", status |-> ""]

\* one entry of the cpstats "Worker Threads" or "Requests" object: its key
\* (the label), its JSON type and the value its keys hold
Entry(label, c) == [t |-> "obj", label |-> label, c |-> c]
BadEntry(label) == [t |-> "str", label |-> label, c |-> Absent]

\* A snapshot: the value at every path (f), the elements of the CPU array
\* (cpu) and of the Connections array (conns), the entries of the cpstats
\* Worker Threads (threads) and Requests (requests) objects.
Snap(f, cpu, conns) ==
    [f |-> f, cpu |-> cpu, conns |-> conns, threads |-> <<>>, requests |-> <<>>]

\* the JSON document {}
EmptySnap == Snap([k \in AllPaths |-> Absent], <<>>, <<>>)

\* the snapshot s with the value at path k replaced
Mutate(s, k, c) == [s EXCEPT !.f[k] = c]

\* a well-formed das2go page: every number distinct, three cores, three
\* connections
Das2goValues ==
    "getCalls" :> 11 @@ "postCalls" :> 12 @@ "getRequests" :> 13 @@
    "postRequests" :> 14 @@ "Memory.Virtual.usedPercent" :> 15 @@
    "Memory.Virtual.total" :> 16 @@ "Memory.Virtual.used" :> 17 @@
    "Memory.Virtual.free" :> 18 @@ "Memory.Swap.usedPercent" :> 19 @@
    "MemStats.Sys" :> 21 @@ "MemStats.Alloc" :> 22 @@
    "MemStats.TotalAlloc" :> 23 @@ "MemStats.HeapSys" :> 24 @@
    "MemStats.StackSys" :> 25 @@ "Load.load1" :> 26 @@ "Load.load5" :> 27 @@
    "Load.load15" :> 28 @@ "NGo" :> 29 @@ "NThreads" :> 31 @@ "Uptime" :> 32

Das2goCores == <<Num(10), Num(20), Num(30)>>
Das2goConns == <<Conn("ESTABLISHED"), Conn("LISTEN"), Conn("CLOSE_WAIT")>>

Das2goFull ==
    Snap([k \in AllPaths |->
              IF k \in Das2goObjects THEN Obj
              ELSE IF k = "CPU" THEN Arr(Len(Das2goCores))
              ELSE IF k = "Connections" THEN Arr(Len(Das2goConns))
              ELSE IF k = "OpenFiles" THEN Arr(2)
              ELSE IF k \in DOMAIN Das2goValues THEN Num(Das2goValues[k])
              ELSE Absent],
         Das2goCores, Das2goConns)

\* the values a source may hold at a path instead of the expected one
OtherCells == {Absent, Null, Str, Obj, Num(7)}

\* the das2go pages the source answers with: the full page, the empty
\* object, and the full page with one path absent or of another type
Das2goSnaps ==
    {Das2goFull, EmptySnap}
    \cup {Mutate(Das2goFull, k, c) : k \in Das2goPaths, c \in OtherCells}
    \cup {[Das2goFull EXCEPT !.cpu = cs, !.f["CPU"] = Arr(Len(cs))] :
              cs \in {<<>>, <<Num(10)>>, <<Num(10), Str>>}}
    \cup {[Das2goFull EXCEPT !.conns = cs, !.f["Connections"] = Arr(Len(cs))] :
              cs \in {<<>>, <<Conn("LISTEN"), BadConn>>,
                      <<Conn("LISTEN"), Conn("CLOSE_WAIT"), Conn("ESTABLISHED")>>}}

RECURSIVE SumCells(_)
\* for _, c := range cpus { cpupct += c.(float64) }
SumCells(cs) == IF cs = <<>> THEN 0 ELSE Head(cs).n + SumCells(Tail(cs))

\* every element of the array is a number (no c.(float64) panics)
AllFloats(cs) == \A i \in 1..Len(cs) : cs[i].t = "num"

\* the number of connection entries whose status is the given one
CountStatus(cs, status) == Cardinality({i \in 1..Len(cs) : cs[i].status = status})

\* x when the statement computing it is reached, the zero value otherwise
Under(reached, x) == IF reached THEN x ELSE [ok |-> TRUE, v |-> 0]

\* ------------------------------------------------- das2go (part_003) mapper
\* core samples labelled from core-1 on
CoreSamplesFromOne(cores) ==
    [i \in 1..Len(cores) |->
        LSample("cores_percent", "core-" \o ToString(i), cores[i].n)]

\* labels := []string{fmt.Sprintf("core-%d", i)} for the i-th core (0-based)
CoreSamples(cores) ==
    [i \in 1..Len(cores) |->
        LSample("cores_percent", "core-" \o ToString(i - 1), cores[i].n)]

\* Exporter.collect of the das2go exporter, from the decoded record on: the
\* fields are read with unchecked type assertions, and the samples are sent
\* after all of them were read.
mapDas2go2(s) ==
    LET f == s.f
        Has(k) == f[k].t # "absent"
        IsObj(k) == f[k].t = "obj"
        IsArr(k) == f[k].t = "arr"
        getCalls == LookupFloat(f["getCalls"])
        postCalls == LookupFloat(f["postCalls"])
        getRequests == LookupFloat(f["getRequests"])
        postRequests == LookupFloat(f["postRequests"])
        \* mem = v.(map[string]interface{})
        memory == Has("Memory") => IsObj("Memory")
        inMemory == Has("Memory") /\ IsObj("Memory")
        \* v := r.(map[string]interface{})
        virtual == (inMemory /\ Has("Memory.Virtual")) => IsObj("Memory.Virtual")
        inVirtual == inMemory /\ IsObj("Memory.Virtual")
        mempct == Under(inVirtual, AssertFloat(f["Memory.Virtual.usedPercent"]))
        memtotal == Under(inVirtual, AssertFloat(f["Memory.Virtual.total"]))
        memused == Under(inVirtual, AssertFloat(f["Memory.Virtual.used"]))
        memfree == Under(inVirtual, AssertFloat(f["Memory.Virtual.free"]))
        swap == (inMemory /\ Has("Memory.Swap")) => IsObj("Memory.Swap")
        inSwap == inMemory /\ IsObj("Memory.Swap")
        swappct == Under(inSwap, AssertFloat(f["Memory.Swap.usedPercent"]))
        memStats == Has("MemStats") => IsObj("MemStats")
        inMemStats == Has("MemStats") /\ IsObj("MemStats")
        memStatsSys == Under(inMemStats, LookupFloat(f["MemStats.Sys"]))
        memStatsAlloc == Under(inMemStats, LookupFloat(f["MemStats.Alloc"]))
        memStatsTotalAlloc == Under(inMemStats, LookupFloat(f["MemStats.TotalAlloc"]))
        memStatsHeapSys == Under(inMemStats, LookupFloat(f["MemStats.HeapSys"]))
        memStatsStackSys == Under(inMemStats, LookupFloat(f["MemStats.StackSys"]))
        \* cpus := v.([]interface{}); val := c.(float64)
        cpus == Has("CPU") => (IsArr("CPU") /\ AllFloats(s.cpu))
        cores == IF IsArr("CPU") THEN s.cpu ELSE <<>>
        \* cpupct = cpupct / float64(len(cpus))
        cpupct == IF Has("CPU")
                  THEN [name |-> "cpu_percent", label |-> "",
                        v |-> SumCells(cores), den |-> Len(cores)]
                  ELSE Sample("cpu_percent", 0)
        load == Has("Load") => IsObj("Load")
        inLoad == Has("Load") /\ IsObj("Load")
        load1 == Under(inLoad, LookupFloat(f["Load.load1"]))
        load5 == Under(inLoad, LookupFloat(f["Load.load5"]))
        load15 == Under(inLoad, LookupFloat(f["Load.load15"]))
        \* files := v.([]interface{})
        files == Has("OpenFiles") => IsArr("OpenFiles")
        openFiles == IF IsArr("OpenFiles") THEN f["OpenFiles"].n ELSE 0
        ngo == LookupFloat(f["NGo"])
        nthr == LookupFloat(f["NThreads"])
        uptime == LookupFloat(f["Uptime"])
        \* switch connections := v.(type) { case []interface{}: ... }
        conns == IF IsArr("Connections") THEN s.conns ELSE <<>>
        \* con := c.(map[string]interface{})
        connections == \A i \in 1..Len(conns) : conns[i].t = "obj"
        estCon == CountStatus(conns, "ESTABLISHED")
        lisCon == CountStatus(conns, "LISTEN")
        totCon == Len(conns)
        ok == /\ getCalls.ok /\ postCalls.ok /\ getRequests.ok /\ postRequests.ok
              /\ memory /\ virtual /\ mempct.ok /\ memtotal.ok /\ memused.ok
              /\ memfree.ok /\ swap /\ swappct.ok /\ memStats /\ memStatsSys.ok
              /\ memStatsAlloc.ok /\ memStatsTotalAlloc.ok /\ memStatsHeapSys.ok
              /\ memStatsStackSys.ok /\ cpus /\ load /\ load1.ok /\ load5.ok
              /\ load15.ok /\ files /\ ngo.ok /\ nthr.ok /\ uptime.ok
              /\ connections
    IN  IF ~ok THEN Panicked(<<>>)
        ELSE Done(
            << Sample("get_calls", getCalls.v), Sample("post_calls", postCalls.v),
               Sample("get_requests", getRequests.v),
               Sample("post_requests", postRequests.v),
               Sample("uptime", uptime.v), Sample("memory_percent", mempct.v),
               Sample("memory_total", memtotal.v), Sample("memory_free", memfree.v),
               Sample("memory_used", memused.v),
               Sample("memstats_sys", memStatsSys.v),
               Sample("memstats_alloc", memStatsAlloc.v),
               Sample("memstats_tot_alloc", memStatsTotalAlloc.v),
               Sample("memstats_heap_sys", memStatsHeapSys.v),
               Sample("memstats_stack_sys", memStatsStackSys.v),
               Sample("swap_percent", swappct.v), cpupct >>
            \o CoreSamples(cores) \o
            << Sample("num_threads", nthr.v), Sample("num_go_routines", ngo.v),
               Sample("load1", load1.v), Sample("load5", load5.v),
               Sample("load15", load15.v), Sample("open_files", openFiles),
               Sample("total_connections", totCon),
               Sample("listen_connections", lisCon),
               Sample("established_connections", estCon) >>)

\* -------------------------------------- das2go (das2go_exporter.go) mapper
\* Exporter.collect of the older das2go exporter, from the decoded record on.
\* Its Connections switch has the single case [][]interface{}, a type that
\* json.Unmarshal into interface{} never produces: the case is never taken.
mapDas2go(s) ==
    LET f == s.f
        Has(k) == f[k].t # "absent"
        IsObj(k) == f[k].t = "obj"
        IsArr(k) == f[k].t = "arr"
        getCalls == LookupFloat(f["getCalls"])
        postCalls == LookupFloat(f["postCalls"])
        getRequests == LookupFloat(f["getRequests"])
        postRequests == LookupFloat(f["postRequests"])
        memory == Has("Memory") => IsObj("Memory")
        inMemory == Has("Memory") /\ IsObj("Memory")
        virtual == (inMemory /\ Has("Memory.Virtual")) => IsObj("Memory.Virtual")
        inVirtual == inMemory /\ IsObj("Memory.Virtual")
        mempct == Under(inVirtual, AssertFloat(f["Memory.Virtual.usedPercent"]))
        swap == (inMemory /\ Has("Memory.Swap")) => IsObj("Memory.Swap")
        inSwap == inMemory /\ IsObj("Memory.Swap")
        swappct == Under(inSwap, AssertFloat(f["Memory.Swap.usedPercent"]))
        cpus == Has("CPU") => (IsArr("CPU") /\ AllFloats(s.cpu))
        cores == IF IsArr("CPU") THEN s.cpu ELSE <<>>
        cpupct == IF Has("CPU")
                  THEN [name |-> "cpu_percent", label |-> "",
                        v |-> SumCells(cores), den |-> Len(cores)]
                  ELSE Sample("cpu_percent", 0)
        \* if v, ok := rec["NGo"]; ok {...} else if v, ok := rec["NThreads"]; ok {...}
        nthr == IF Has("NGo") THEN AssertFloat(f["NGo"])
                ELSE LookupFloat(f["NThreads"])
        uptime == LookupFloat(f["Uptime"])
        ok == /\ getCalls.ok /\ postCalls.ok /\ getRequests.ok /\ postRequests.ok
              /\ memory /\ virtual /\ mempct.ok /\ swap /\ swappct.ok /\ cpus
              /\ nthr.ok /\ uptime.ok
    IN  IF ~ok THEN Panicked(<<>>)
        ELSE Done(
            << Sample("get_calls", getCalls.v), Sample("post_calls", postCalls.v),
               Sample("get_requests", getRequests.v),
               Sample("post_requests", postRequests.v),
               Sample("uptime", uptime.v), Sample("memory_percent", mempct.v),
               Sample("swap_percent", swappct.v), cpupct,
               Sample("num_threads", nthr.v) >>)

\* ------------------------------------------ wmcore (part_000, older) mapper
Wmcore1Values ==
    "memory_percent" :> 17 @@ "cpu_percent" :> 42 @@ "num_threads" :> 5 @@
    "num_fds" :> 9 @@ "uptime" :> 120

Wmcore1Full ==
    Snap([k \in AllPaths |->
              IF k = "connections" THEN Arr(0)
              ELSE IF k \in DOMAIN Wmcore1Values THEN Num(Wmcore1Values[k])
              ELSE Absent],
         <<>>, <<>>)

\* the page {"uptime": .., "cpu_percent": .., "memory_percent": ..}
Wmcore1Flat ==
    Snap([k \in AllPaths |->
              IF k \in {"uptime", "cpu_percent", "memory_percent"}
              THEN Num(Wmcore1Values[k]) ELSE Absent],
         <<>>, <<>>)

\* the flat page with the given values
FlatPage(u, c, m) ==
    [Wmcore1Flat EXCEPT !.f["uptime"] = Num(u), !.f["cpu_percent"] = Num(c),
                        !.f["memory_percent"] = Num(m)]

Wmcore1Snaps ==
    {Wmcore1Full, Wmcore1Flat, EmptySnap}
    \cup {FlatPage(u, c, m) : u \in {0, 3}, c \in {0, 4}, m \in {0, 5}}
    \cup {Mutate(Wmcore1Full, k, c) : k \in Wmcore1Paths, c \in OtherCells}

\* Exporter.Describe of the older wmcore exporter: the descriptors without
\* labels it announces (the GaugeVec connections announces its own)
DescribeWmcore1 ==
    {"uptime", "memory_percent", "cpu_percent", "num_threads", "num_fds"}

\* Exporter.collect of the older wmcore exporter, from the decoded record on.
\* The connections switch has the single case [][]interface{}, which a
\* decoded JSON value never has; the last sample is sent on the numThreads
\* descriptor with the value of num_fds.
mapWmcore1(s) ==
    LET f == s.f
        mempct == LookupFloat(f["memory_percent"])
        cpupct == LookupFloat(f["cpu_percent"])
        nthr == LookupFloat(f["num_threads"])
        nfds == LookupFloat(f["num_fds"])
        uptime == LookupFloat(f["uptime"])
        ok == mempct.ok /\ cpupct.ok /\ nthr.ok /\ nfds.ok /\ uptime.ok
    IN  IF ~ok THEN Panicked(<<>>)
        ELSE Done(<< Sample("uptime", uptime.v),
                     Sample("memory_percent", mempct.v),
                     Sample("cpu_percent", cpupct.v),
                     Sample("num_threads", nthr.v),
                     Sample("num_threads", nfds.v) >>)

\* ------------------------------------------------- wmcore (part_002) mapper
WmcoreValues ==
    "server.uptime" :> 120 @@ "server.memory_percent" :> 17 @@
    "server.cpu_percent" :> 42 @@ "server.cpu_num" :> 4 @@ "server.time" :> 99 @@
    "server.memory_full_info.vms" :> 51 @@ "server.memory_full_info.rss" :> 52 @@
    "server.memory_full_info.swap" :> 53 @@ "server.memory_full_info.pss" :> 54 @@
    "server.memory_full_info.uss" :> 55 @@ "server.cpu_times.system" :> 61 @@
    "server.cpu_times.user" :> 62 @@ "server.cpu_times.children_system" :> 63 @@
    "server.cpu_times.children_user" :> 64

WmcoreFull ==
    Snap([k \in AllPaths |->
              IF k = "result" THEN Arr(1)
              ELSE IF k \in WmcoreObjects THEN Obj
              ELSE IF k \in DOMAIN WmcoreValues THEN Num(WmcoreValues[k])
              ELSE Absent],
         <<>>, <<>>)

WmcoreSnaps ==
    {WmcoreFull, EmptySnap, Mutate(WmcoreFull, "result", Arr(0))}
    \cup {Mutate(WmcoreFull, k, c) :
              k \in WmcorePaths \ {"result.0"}, c \in OtherCells}
    \cup {Mutate(WmcoreFull, "result.0", c) : c \in OtherCells \ {Absent}}

\* encoding/json into a struct field of a numeric type: a missing key or a
\* null leaves the zero value, a number is stored, anything else is an
\* UnmarshalTypeError
TypedNum(c) ==
    IF c.t \in {"absent", "null"} THEN [ok |-> TRUE, v |-> 0] ELSE AssertFloat(c)

\* encoding/json into a struct (or slice) field: a missing key or a null
\* leaves the zero value, a value of another JSON type is an error
TypedIs(c, t) == c.t \in {"absent", "null", t}

\* parseData: json.Unmarshal into ReqMgrResults, then r.Result[0].Server.
\* An error of the decoder is returned; an empty Result list is indexed all
\* the same (index out of range).
parseData(s) ==
    LET f == s.f
        inResult == f["result"].t = "arr" /\ f["result"].n > 0
        inFirst == inResult /\ f["result.0"].t = "obj"
        inServer == inFirst /\ f["server"].t = "obj"
        inMemory == inServer /\ f["server.memory_full_info"].t = "obj"
        inCpu == inServer /\ f["server.cpu_times"].t = "obj"
        Field(reached, k) == Under(reached, TypedNum(f[k]))
        m == [k \in DOMAIN WmcoreValues |->
                 Field(IF k \in {"server.memory_full_info.vms",
                                 "server.memory_full_info.rss",
                                 "server.memory_full_info.swap",
                                 "server.memory_full_info.pss",
                                 "server.memory_full_info.uss"} THEN inMemory
                       ELSE IF k \in {"server.cpu_times.system",
                                      "server.cpu_times.user",
                                      "server.cpu_times.children_system",
                                      "server.cpu_times.children_user"} THEN inCpu
                       ELSE inServer, k)]
        decoded == /\ TypedIs(f["result"], "arr")
                   /\ inResult => TypedIs(f["result.0"], "obj")
                   /\ inFirst => TypedIs(f["server"], "obj")
                   /\ inServer => TypedIs(f["server.memory_full_info"], "obj")
                   /\ inServer => TypedIs(f["server.cpu_times"], "obj")
                   /\ \A k \in DOMAIN m : m[k].ok
    IN  [err |-> ~decoded,
         panic |-> decoded /\ ~inResult,
         m |-> [k \in DOMAIN m |-> m[k].v]]

\* Exporter.collect of the wmcore exporter, from the response body on
mapWmcore(s) ==
    LET p == parseData(s)
        rec == p.m
    IN  IF p.err THEN Failed
        ELSE IF p.panic THEN Panicked(<<>>)
        ELSE Done(<< Sample("uptime", rec["server.uptime"]),
                     Sample("memory_percent", rec["server.memory_percent"]),
                     Sample("cpu_percent", rec["server.cpu_percent"]),
                     Sample("num_cpu", rec["server.cpu_num"]),
                     Sample("vms", rec["server.memory_full_info.vms"]),
                     Sample("rss", rec["server.memory_full_info.rss"]),
                     Sample("swap", rec["server.memory_full_info.swap"]),
                     Sample("pss", rec["server.memory_full_info.pss"]),
                     Sample("uss", rec["server.memory_full_info.uss"]),
                     Sample("cpu_system", rec["server.cpu_times.system"]),
                     Sample("cpu_user", rec["server.cpu_times.user"]),
                     Sample("cpu_children_system",
                            rec["server.cpu_times.children_system"]),
                     Sample("cpu_children_user",
                            rec["server.cpu_times.children_user"]),
                     Sample("time", rec["server.time"]) >>)

\* ------------------------------------------------------ cpy (part_001) mapper
\* a Go value of an integer type (never the result of decoding JSON)
IntCell(x) == [t |-> "int", n |-> x]

\* convert(srv, key): the float64 under the key; 64 for a value of an
\* integer type (float64(64)); 0 otherwise
convert(c) == IF c.t = "num" THEN c.n ELSE IF c.t = "int" THEN 64 ELSE 0

\* a Go float32 (never the result of decoding JSON either)
Float32Cell(x) == [t |-> "float32", n |-> x]

\* the keys and the values of the maps convert is called with; a key that
\* the map does not hold reads as nil, like the absent cell
ConvertKeys == {"Bytes Read", "Bytes Written"}
ConvertCells == {Absent, Null, Str, Obj, Num(7), Num(64), IntCell(7), Float32Cell(7)}

CpyFull ==
    [Snap([k \in AllPaths |->
               IF k \in {"Server", "Server.Worker Threads", "Application",
                         "Application.Requests"} THEN Obj
               ELSE IF k \in CpyServerKeys THEN Num(3)
               ELSE IF k \in CpyAppKeys THEN Num(4)
               ELSE Absent],
          <<>>, <<>>)
     EXCEPT !.threads = <<Entry("t1", Num(5))>>,
            !.requests = <<Entry("r1", Num(6))>>]

CpySnaps ==
    {CpyFull, EmptySnap}
    \cup {Mutate(CpyFull, k, c) :
              k \in {"Server", "Server.Worker Threads", "Application",
                     "Application.Requests", "Server.Accepts",
                     "Application.Uptime"},
              c \in {Absent, Null, Str, Num(7)}}
    \cup {[CpyFull EXCEPT !.threads = es] :
              es \in {<<>>, <<Entry("t1", Str)>>, <<BadEntry("t1")>>,
                      <<Entry("t1", Num(5)), BadEntry("t2")>>}}
    \cup {[CpyFull EXCEPT !.requests = es] :
              es \in {<<>>, <<BadEntry("r1")>>,
                      <<Entry("r1", Num(6)), Entry("r2", Absent)>>}}

\* the samples sent for one Worker Threads entry / one Requests entry
EntrySamples(which, e) ==
    IF which = "thread"
    THEN << LSample("thrBytesRead", e.label, convert(e.c)),
            LSample("thrBytesWrite", e.label, convert(e.c)),
            LSample("thrReadThroughput", e.label, convert(e.c)),
            LSample("thrRequests", e.label, convert(e.c)),
            LSample("thrWorkTime", e.label, convert(e.c)),
            LSample("thrWriteThroughput", e.label, convert(e.c)) >>
    ELSE << LSample("cpyBytesRead", e.label, convert(e.c)),
            LSample("cpyBytesWrite", e.label, convert(e.c)),
            LSample("cpyProcTime", e.label, convert(e.c)) >>

RECURSIVE walkEntries(_, _)
\* for k, v := range tdata { d = v.(map[string]interface{}); ch <- ... }:
\* the samples sent, and whether an entry that is no object ended the walk
walkEntries(which, es) ==
    IF es = <<>> THEN [out |-> <<>>, panic |-> FALSE]
    ELSE IF Head(es).t # "obj" THEN [out |-> <<>>, panic |-> TRUE]
    ELSE LET rest == walkEntries(which, Tail(es))
         IN  [out |-> EntrySamples(which, Head(es)) \o rest.out,
              panic |-> rest.panic]

\* the body of the loop for a key that contains "Server"
cpyServer(s) ==
    LET f == s.f
        own == << Sample("accepts", convert(f["Server.Accepts"])),
                  Sample("acceptInSec", convert(f["Server.Accepts/sec"])),
                  Sample("bytesRead", convert(f["Server.Bytes Read"])),
                  Sample("readThroughput", convert(f["Server.Read Throughput"])),
                  Sample("writeThroughput", convert(f["Server.Write Throughput"])),
                  Sample("socketErrors", convert(f["Server.Socket Errors"])),
                  Sample("threads", convert(f["Server.Threads"])),
                  Sample("threadsIdle", convert(f["Server.Threads Idle"])),
                  Sample("requests", convert(f["Server.Requests"])),
                  Sample("queue", convert(f["Server.Queue"])) >>
        w == walkEntries("thread", s.threads)
    IN  IF f["Server"].t = "absent" THEN [out |-> <<>>, panic |-> FALSE]
        ELSE IF f["Server"].t # "obj" THEN [out |-> <<>>, panic |-> TRUE]
        ELSE IF f["Server.Worker Threads"].t = "absent"
             THEN [out |-> own, panic |-> FALSE]
        ELSE IF f["Server.Worker Threads"].t # "obj"
             THEN [out |-> own, panic |-> TRUE]
        ELSE [out |-> own \o w.out, panic |-> w.panic]

\* the body of the loop for a key that contains "Application"
cpyApplication(s) ==
    LET f == s.f
        own == << Sample("cpyBytesReadPerRequest",
                         convert(f["Application.Bytes Read/Request"])),
                  Sample("cpyBytesReadPerSecond",
                         convert(f["Application.Bytes Read/Second"])),
                  Sample("cpyBytesWritePerRequest",
                         convert(f["Application.Bytes Written/Request"])),
                  Sample("cpyBytesWritePerSecond",
                         convert(f["Application.Bytes Written/Second"])),
                  Sample("cpyCurrentRequest",
                         convert(f["Application.Current Requests"])),
                  Sample("cpyCurrentTime", convert(f["Application.Current Time"])),
                  Sample("cpyRequestsPerSecond",
                         convert(f["Application.Requests/Second"])),
                  Sample("cpyTotalBytesRead",
                         convert(f["Application.Total Bytes Read"])),
                  Sample("cpyTotalBytesWrite",
                         convert(f["Application.Total Bytes Written"])),
                  Sample("cpyTotalRequests",
                         convert(f["Application.Total Requests"])),
                  Sample("cpyTotalTime", convert(f["Application.Total Time"])),
                  Sample("uptime", convert(f["Application.Uptime"])) >>
        w == walkEntries("request", s.requests)
    IN  IF f["Application"].t = "absent" THEN [out |-> <<>>, panic |-> FALSE]
        ELSE IF f["Application"].t # "obj" THEN [out |-> <<>>, panic |-> TRUE]
        ELSE IF f["Application.Requests"].t = "absent"
             THEN [out |-> own, panic |-> FALSE]
        ELSE IF f["Application.Requests"].t # "obj"
             THEN [out |-> own, panic |-> TRUE]
        ELSE [out |-> own \o w.out, panic |-> w.panic]

\* two sections walked one after the other: the second is not reached when
\* the first panics
InOrder(a, b) ==
    IF a.panic THEN Panicked(a.out)
    ELSE IF b.panic THEN Panicked(a.out \o b.out)
    ELSE Done(a.out \o b.out)

\* Exporter.collect of the cpy exporter, from the decoded record on: the
\* sections are walked in the order of Go's map iteration, which is not
\* fixed, and every sample is sent as soon as it is computed.
mapCpy(s) ==
    {InOrder(cpyServer(s), cpyApplication(s)),
     InOrder(cpyApplication(s), cpyServer(s))}

\* ------------------------------------------------------ eos (part_004) check
OkEOS == 0
NoAccessToEOS == 1
FailedToWriteTempfile == 2
FailedToCloseTempfile == 3

\* the outcomes of the file operations of one check
IOs == [stat : BOOLEAN, temp : BOOLEAN, write : BOOLEAN, close : BOOLEAN]
NoIO == [stat |-> FALSE, temp |-> FALSE, write |-> FALSE, close |-> FALSE]

\* eosAccess: the code returned, or a panic: the error of ioutil.TempFile is
\* not looked at, and tmpFile.Name() is called on the nil file it returns
\* with an error
eosAccess(io) ==
    IF ~io.stat THEN [panic |-> FALSE, code |-> NoAccessToEOS]
    ELSE IF ~io.temp THEN [panic |-> TRUE, code |-> OkEOS]
    ELSE IF ~io.write THEN [panic |-> FALSE, code |-> FailedToWriteTempfile]
    ELSE IF ~io.close THEN [panic |-> FALSE, code |-> FailedToCloseTempfile]
    ELSE [panic |-> FALSE, code |-> OkEOS]

\* Exporter.collect of the eos exporter
collectEos(io) ==
    LET a == eosAccess(io)
    IN  IF a.panic THEN Panicked(<<>>) ELSE Done(<<Sample("status", a.code)>>)

\* ----------------------------------------------------------- quota mappers
\* the order in which collect sends the quota samples
QuotaOrder == << "total_cpus", "cpus_used", "total_ram", "ram_used",
    "total_instances", "instances_used", "total_volume", "volumes_used",
    "total_volume_size", "total_volume_size_used", "total_shares",
    "shares_used", "shares_size", "shares_size_used" >>
OpenstackOrder == << "cpus_total", "cpus_used", "ram_total_gbytes",
    "ram_used_gbytes", "instances_total", "instances_used", "volumes_total",
    "volumes_used", "volumes_size_total_gbytes", "volumes_size_used_gbytes",
    "shares_total", "shares_used", "shares_size_total_gbytes",
    "shares_size_used_gbytes" >>

\* the output of quota.sh with every key set (the i-th key holds 100 + i)
QuotaFullOf(order) ==
    Snap([k \in AllPaths |->
              IF \E i \in 1..Len(order) : order[i] = k
              THEN Num(100 + CHOOSE i \in 1..Len(order) : order[i] = k)
              ELSE Absent],
         <<>>, <<>>)

QuotaSnapsOf(order) ==
    {QuotaFullOf(order), EmptySnap}
    \cup {Mutate(QuotaFullOf(order), order[i], c) :
              i \in {1, Len(order)}, c \in {Absent, Null, Str}}

\* the records decoded from the script's output, key by key
QuotaRecords(s, order) == [i \in 1..Len(order) |-> TypedNum(s.f[order[i]])]

\* the samples of one successful quota cycle: the keys in order, then the
\* timestamp (time.Now().Unix())
QuotaSamples(s, order, now) ==
    [i \in 1..Len(order) |-> Sample(order[i], QuotaRecords(s, order)[i].v)]
    \o <<Sample("timestamp", now)>>

\* every key of the output decodes into its int64 field
QuotaDecodes(s, order) == \A i \in 1..Len(order) : QuotaRecords(s, order)[i].ok

\* --------------------------------------------------------------- responses
\* What the source answered to one fetch.
\*   class  "transport": the request failed (client.Do returned an error)
\*          "http": an HTTP response with status `code`
\*          "cmd": the script ended with exit status `code`
\*          "fs": the outcomes `io` of the file operations of the eos check
\*   top    the JSON (or YAML) type of the body or output: "obj", "null",
\*          "arr" (a list of objects), "arrx" (another list), "scalar",
\*          "empty", "invalid" (not parseable), "unread" (reading the body
\*          failed)
\*   snap   the decoded document, for top = "obj"
\*   now    the clock when the response was handled
Response(class, code, top, snap, io) ==
    [class |-> class, code |-> code, top |-> top, snap |-> snap, io |-> io,
     now |-> 0]

NoResponse == Response("none", 0, "invalid", EmptySnap, NoIO)
TransportError == Response("transport", 0, "invalid", EmptySnap, NoIO)
BadStatus(code) == Response("http", code, "invalid", EmptySnap, NoIO)
Page(top, snap) == Response("http", 200, top, snap, NoIO)
Output(code, top, snap) == Response("cmd", code, top, snap, NoIO)

\* the answers of a failing HTTP source
HttpFailures == {TransportError} \cup {BadStatus(c) : c \in {404, 500, 503}}
\* the bodies that are no JSON object
OtherBodies ==
    {Page(top, EmptySnap) : top \in {"null", "arr", "arrx", "scalar", "invalid", "unread"}}

\* the answers the source of an exporter of kind k may give
Responses(k) ==
    IF k \in {"http", "pingpong"}
        THEN HttpFailures \cup OtherBodies \cup {Page("obj", EmptySnap)}
    ELSE IF k \in {"das2go", "das2go2"}
        THEN HttpFailures \cup OtherBodies \cup {Page("obj", s) : s \in Das2goSnaps}
    ELSE IF k = "wmcore1"
        THEN HttpFailures \cup OtherBodies \cup {Page("obj", s) : s \in Wmcore1Snaps}
    ELSE IF k = "wmcore"
        THEN HttpFailures \cup OtherBodies \cup {Page("obj", s) : s \in WmcoreSnaps}
    ELSE IF k = "cpy"
        THEN HttpFailures \cup OtherBodies \cup {Page("obj", s) : s \in CpySnaps}
    ELSE IF k = "eos"
        THEN {Response("fs", 0, "invalid", EmptySnap, io) : io \in IOs}
    ELSE {Output(1, "invalid", EmptySnap), Output(1, "empty", EmptySnap)}
         \cup {Output(0, top, EmptySnap) : top \in {"null", "empty", "scalar", "invalid"}}
         \cup {Output(0, "obj", s) :
                   s \in QuotaSnapsOf(IF k = "quota" THEN QuotaOrder
                                      ELSE OpenstackOrder)}

\* json.Unmarshal(data, &rec) with rec a map[string]interface{}: an object
\* is decoded, null leaves the nil map (every key absent), anything else is
\* an error
DecodesToMap(r) == r.top \in {"obj", "null"}
Decoded(r) == IF r.top = "obj" THEN r.snap ELSE EmptySnap

\* the first part of collect in the exporters that scrape a JSON page:
\* client.Do failed, or the status is not 200
FetchFailed(r) == r.class = "transport" \/ r.code # 200

\* ----------------------------------------------------------------- collect
\* a collect of the http exporter that returns an error for a failed fetch
\* and leaves the report to Collect
collectHttpReturningErrors(ct, r) ==
    IF FetchFailed(r) THEN Failed ELSE Done(<<Sample("status", r.code)>>)

\* Exporter.collect of the http exporter: one status sample, and never an
\* error.  With -contentType application/json a body that decodes into a
\* map leaves the function without a sample.
collectHttp(ct, r) ==
    IF r.class = "transport" THEN Done(<<Sample("status", 0)>>)
    ELSE IF r.code # 200 THEN Done(<<Sample("status", r.code)>>)
    ELSE IF ct = "application/json"
         THEN IF DecodesToMap(r) THEN Done(<<>>)
              ELSE IF r.top = "arr" THEN Done(<<Sample("status", r.code)>>)
              ELSE Done(<<Sample("status", 0)>>)
    ELSE Done(<<Sample("status", r.code)>>)

collectDas2go(r) ==
    IF FetchFailed(r) \/ ~DecodesToMap(r) THEN Failed ELSE mapDas2go(Decoded(r))

collectDas2go2(r) ==
    IF FetchFailed(r) \/ ~DecodesToMap(r) THEN Failed ELSE mapDas2go2(Decoded(r))

collectWmcore1(r) ==
    IF FetchFailed(r) \/ ~DecodesToMap(r) THEN Failed ELSE mapWmcore1(Decoded(r))

\* parseData decodes into a struct: null decodes (to the zero value) too
collectWmcore(r) ==
    IF FetchFailed(r) \/ ~DecodesToMap(r) THEN Failed ELSE mapWmcore(Decoded(r))

collectCpy(r) ==
    IF FetchFailed(r) \/ ~DecodesToMap(r) THEN {Failed} ELSE mapCpy(Decoded(r))

\* run and collect of quota_exporter.go: both errors of run end in log.Fatal
collectQuota(r) ==
    IF r.code # 0 THEN Fatal
    ELSE IF ~DecodesToMap(r) \/ ~QuotaDecodes(Decoded(r), QuotaOrder) THEN Fatal
    ELSE Done(QuotaSamples(Decoded(r), QuotaOrder, r.now))

\* run and collect of openstack/quota_exporter.go: run returns its errors,
\* collect hands them on.  yaml.Unmarshal takes an empty document as well.
collectOpenstack(r) ==
    IF r.code # 0 THEN Failed
    ELSE IF r.top \notin {"obj", "null", "empty"}
            \/ ~QuotaDecodes(Decoded(r), OpenstackOrder) THEN Failed
    ELSE Done(QuotaSamples(Decoded(r), OpenstackOrder, r.now))

\* the outcomes collect may have in an exporter of kind k, started with
\* -contentType ct, when the source answers r
collect(k, ct, r) ==
    IF k = "http" THEN {collectHttp(ct, r)}
    ELSE IF k = "das2go" THEN {collectDas2go(r)}
    ELSE IF k = "das2go2" THEN {collectDas2go2(r)}
    ELSE IF k = "wmcore1" THEN {collectWmcore1(r)}
    ELSE IF k = "wmcore" THEN {collectWmcore(r)}
    ELSE IF k = "cpy" THEN collectCpy(r)
    ELSE IF k = "eos" THEN {collectEos(r.io)}
    ELSE IF k = "quota" THEN {collectQuota(r)}
    ELSE {collectOpenstack(r)}

\* a Collect that only logs the error of collect
OnErrorLogOnly(k) == "log"

\* What Collect does with an error of collect:
\*   "count"  scrapeFailures.Inc() and scrapeFailures.Collect(ch)
\*   "nil"    the same calls on a scrapeFailures that NewExporter never set:
\*            a nil interface, the call panics
\*   "log"    the failure is logged only (the counter lines are commented out)
\*   "fatal"  log.Fatalf
OnError(k) ==
    IF k \in {"http", "eos", "quota", "openstack"} THEN "count"
    ELSE IF k \in {"das2go", "wmcore1", "wmcore"} THEN "nil"
    ELSE IF k = "das2go2" THEN "log"
    ELSE "fatal"

\* getResult of http_pingpong: the status the relay answers with
getResultStatus(r) ==
    IF r.class = "transport" THEN 404
    ELSE IF r.top = "unread" THEN 404
    ELSE 200

\* ------------------------------------------------------------------- state
VARIABLES
    kind,           \* the exporter program this process runs
    contentType,    \* the -contentType flag (http exporter)
    alive,          \* the process runs (FALSE after a panic or log.Fatal)
    now,            \* the clock, in seconds
    mutex,          \* Exporter.mutex: 0 when free, else the pull holding it
    pc,             \* where each pull request is
    scrapeFailures, \* the value of Exporter.scrapeFailures
    last,           \* the cycle that ended last: what it received and sent,
                    \* until the next fetch
    started,        \* pulls issued so far
    fetches,        \* fetches issued so far
    completed,      \* pulls answered so far
    renewClientInterval, \* the -renewClientInterval flag (http exporter)
    certs,          \* _certs holds a certificate
    Expire,         \* HttpClientMgr.Expire
    Client,         \* HttpClientMgr.Client, _client, or the client of collect
    load,           \* what the credential load of the latest fetch ended in
    firstSeen,      \* the first answered cycle on a page of FirstPages
    target,         \* the pid of the process the pattern matches (0: none)
    exporters,      \* how many process_exporter run with each command line
    shLine,         \* process_monitor.sh: the statement it is at
    shPid,          \* process_monitor.sh: $pid
    shPrefix,       \* process_monitor.sh: $prefix
    monKind,        \* which process monitor in Go runs
    monLine,        \* the monitor in Go: the statement it is at
    monFlag,        \* the monitor in Go: the -prefix flag
    monPid,         \* the monitor in Go: pid, as findProcess returned it
    monPrefix,      \* the monitor in Go: prefix, as findProcess returned it
    child,          \* the process_exporter that cmd.Run() waits for
    spawned,        \* how many process_exporter the monitor has started
    fnStep,         \* openstack/quota.sh: the next statement of each function
    tmpFiles,       \* openstack/quota.sh: which function created each file
    printed,        \* openstack/quota.sh: how often each key was printed
    foreign,        \* openstack/quota.sh: a function has read or removed a
                    \* file that it had not created
    mainLine,       \* openstack/quota.sh: where main is
    srv,            \* convert: the map it is called with
    key,            \* convert: the key it is called with
    converted       \* convert: whether it has returned, and what

clientVars == <<renewClientInterval, certs, Expire, Client, load>>

\* the variables of the exporters
exporterVars == <<kind, contentType, alive, now, mutex, pc, scrapeFailures,
                  last, started, fetches, completed, clientVars, firstSeen>>

\* the variables of the process monitors and of the process table they read
shVars == <<target, exporters, shLine, shPid, shPrefix>>

\* the variables of the programs that are no exporters
\* the variables of the process monitors in Go
monVars == <<monKind, monLine, monFlag, monPid, monPrefix, child, spawned>>

\* the variables of openstack/quota.sh
quotaShVars == <<fnStep, tmpFiles, printed, foreign, mainLine>>

\* the variables of a call of convert
convertVars == <<srv, key, converted>>

toolVars == <<shVars, monVars, quotaShVars, convertVars>>

vars == <<exporterVars, toolVars>>

\* an http.Client: the how-manieth client built (0: none yet), whether its
\* transport presents a client certificate, whether it has a Timeout
HttpClientOf(serial, cert, timeout) ==
    [serial |-> serial, cert |-> cert, timeout |-> timeout]
NoClient == HttpClientOf(0, FALSE, FALSE)

\* the values of -renewClientInterval the http exporter is run with
Intervals == {-1, 0, 1, 2}

\* the exporters that build _client once, when the program starts
StartupClientKinds == {"das2go", "das2go2", "wmcore1", "wmcore"}

\* a tlsCerts that looks the credential up whatever the interval is
tlsCertsAnyInterval(interval, cached, usable) ==
    IF cached THEN [err |-> FALSE, found |-> TRUE, cache |-> TRUE, load |-> "none"]
    ELSE IF ~usable THEN [err |-> TRUE, found |-> FALSE, cache |-> FALSE, load |-> "failed"]
    ELSE [err |-> FALSE, found |-> TRUE, cache |-> TRUE, load |-> "ok"]

\* tlsCerts of the http exporter: no certificate when the interval is not
\* positive; the cached one; else the proxy or the certificate and key are
\* looked up and loaded, which fails when none is usable
tlsCerts(interval, cached, usable) ==
    IF interval <= 0 THEN [err |-> FALSE, found |-> FALSE, cache |-> cached, load |-> "none"]
    ELSE IF cached THEN [err |-> FALSE, found |-> TRUE, cache |-> TRUE, load |-> "none"]
    ELSE IF ~usable THEN [err |-> TRUE, found |-> FALSE, cache |-> FALSE, load |-> "failed"]
    ELSE [err |-> FALSE, found |-> TRUE, cache |-> TRUE, load |-> "ok"]

\* an HttpClient that sets the Timeout on every client it builds
HttpClientAlwaysTimeout(interval, cached, usable, serial) ==
    LET t == tlsCerts(interval, cached, usable)
    IN  [client |-> HttpClientOf(serial, ~t.err /\ t.found, TRUE),
         cache |-> t.cache, load |-> t.load]

\* HttpClient of the http exporter: a bare &http.Client{} when tlsCerts
\* failed or found nothing, a client with the certificate and a Timeout
\* otherwise
HttpClient(interval, cached, usable, serial) ==
    LET t == tlsCerts(interval, cached, usable)
    IN  [client |-> HttpClientOf(serial, ~t.err /\ t.found, ~t.err /\ t.found),
         cache |-> t.cache, load |-> t.load]

\* the record of a cycle that ended: the pull p, the response its fetch
\* received, the samples sent on ch, whether collect returned an error, the
\* HTTP status the pull was answered with (0: never answered), the failure
\* counter before and after, and whether the process ended in it
Cycle(p, r, samples, e, status, b, a, c) ==
    [p |-> p, resp |-> r, out |-> samples, err |-> e, answer |-> status,
     before |-> b, after |-> a, crashed |-> c]

NoCycle == Cycle(0, NoResponse, <<>>, FALSE, 0, 0, 0, FALSE)

\* the -contentType flags the model runs the http exporter with
ContentTypes == {"", "application/json"}

\* the pulls that are inside a cycle (between Lock and Unlock)
InCycle == {p \in Pullers : pc[p] \in {"fetch", "inflight", "silent"}}

\* the pages on which the first answered cycle is kept for comparison with
\* the later ones: the page with every key, and for the http exporter the
\* 503 of a failing source
FirstPages(k) ==
    IF k \in {"das2go", "das2go2"} THEN {Page("obj", Das2goFull)}
    ELSE IF k = "wmcore1" THEN {Page("obj", Wmcore1Full)}
    ELSE IF k = "wmcore" THEN {Page("obj", WmcoreFull)}
    ELSE IF k = "http" THEN {BadStatus(503)}
    ELSE {}

\* no cycle on a page of FirstPages was answered yet
NotSeen == [seen |-> FALSE, out |-> <<>>, failed |-> FALSE]

\* the record kept of the cycles answered so far, after the cycle c: the
\* samples of the first cycle on the page of FirstPages, and whether collect
\* has returned an error in a cycle since
Remember(c) ==
    IF c.crashed THEN firstSeen
    ELSE IF firstSeen.seen
         THEN [firstSeen EXCEPT !.failed = @ \/ c.err]
    ELSE IF c.resp \in FirstPages(kind)
         THEN [seen |-> TRUE, out |-> c.out, failed |-> FALSE]
    ELSE firstSeen

\* ------------------------------------------------------ process_monitor.sh
\* the pids of the process table (0 stands for no process)
MaxPid == 2
Pids == 1..MaxPid

\* the values of $prefix, as the characters grep compares: one is the
\* beginning of the other
Prefixes == {<<"d">>, <<"d", "2">>}

\* the command lines of process_exporter that ps can list
CommandLines == [pid : Pids, prefix : Prefixes]

\* no process_exporter runs
NoExporters == [c \in CommandLines |-> 0]

\* the process_exporter that run with the command line c
Running(c) == exporters[c] > 0

\* x is found at the end of a line that ends with the prefix y (grep has no
\* anchor after $prefix)
GrepPrefix(x, y) == Len(x) <= Len(y) /\ SubSeq(y, 1, Len(x)) = x

\* grep "process_exporter -pid $pid -prefix $prefix" on the line of c
GrepExporter(c, p, x) == c.pid = p /\ GrepPrefix(x, c.prefix)

\* grep "process_exporter -pid [0-9]* -prefix $prefix" on the line of c
GrepAnyPid(c, x) == GrepPrefix(x, c.prefix)

\* process_monitor.sh is not running
ShIdle ==
    /\ exporters = NoExporters
    /\ shLine = "off"
    /\ shPid = 0
    /\ shPrefix = <<>>
ShOff == target = 0 /\ ShIdle

\* ------------------------------------------------------ openstack/quota.sh
\* a statement of a function: ">" writes the output of a command to a file,
\* "echo" prints a key computed from a file, "read" reads files only, "while"
\* is the loop that adds up the flavors of the instances, "rm" removes a file
Write(f) == [op |-> ">", files |-> {f}, key |-> ""]
Echo(k, f) == [op |-> "echo", files |-> f, key |-> k]
Read(f) == [op |-> "read", files |-> f, key |-> ""]
Rm(f) == [op |-> "rm", files |-> {f}, key |-> ""]
While(f) == [op |-> "while", files |-> f, key |-> ""]

\* local x="name.${TEMP_FILE_EXTENSION}"
TempFile(name) == name \o ".tmp"

get_quota_show_results ==
    LET f == TempFile("quota_show")
    IN  << Write(f), Echo("cpus_total", {f}), Echo("ram_total_gbytes", {f}),
           Echo("instances_total", {f}), Echo("volumes_total", {f}),
           Echo("volumes_size_total_gbytes", {f}), Rm(f) >>

get_volume_list_results ==
    LET f == TempFile("volume_list")
    IN  << Write(f), Echo("volumes_used", {f}),
           Echo("volumes_size_used_gbytes", {f}), Rm(f) >>

get_share_quota_show_results ==
    LET f == TempFile("share_quota_show")
    IN  << Write(f), Echo("shares_total", {f}),
           Echo("shares_size_total_gbytes", {f}), Rm(f) >>

get_share_list_results ==
    LET f == TempFile("share_list")
    IN  << Write(f), Echo("shares_used", {f}),
           Echo("shares_size_used_gbytes", {f}), Rm(f) >>

get_server_and_flavor_list_results ==
    LET i == TempFile("instances_list")
        l == TempFile("flavors_list")
        c == TempFile("flavor_instance_count")
    IN  << Write(i), Echo("instances_used", {i}), Write(l), Read({i}), Write(c),
           While({c, l}), Echo("cpus_used", {}), Echo("ram_used_gbytes", {}),
           Rm(i), Rm(l), Rm(c) >>

\* the functions main starts with &
Functions ==
    [quota_show |-> get_quota_show_results,
     volume_list |-> get_volume_list_results,
     share_quota_show |-> get_share_quota_show_results,
     share_list |-> get_share_list_results,
     server_and_flavor_list |-> get_server_and_flavor_list_results]

\* the statements of the function fn
StepsOf(fn) == {Functions[fn][i] : i \in 1..Len(Functions[fn])}

\* the files and the keys of the script
TempFiles == UNION {UNION {st.files : st \in StepsOf(fn)} : fn \in DOMAIN Functions}
MetricKeys == {st.key : st \in UNION {StepsOf(fn) : fn \in DOMAIN Functions}} \ {""}

\* the script is not running
QuotaShOff ==
    /\ fnStep = [fn \in DOMAIN Functions |-> 0]
    /\ tmpFiles = [f \in TempFiles |-> ""]
    /\ printed = [k \in MetricKeys |-> 0]
    /\ foreign = FALSE
    /\ mainLine = "off"

\* convert is not being called
NotConverted == [returned |-> FALSE, v |-> 0]
ConvertOff ==
    /\ srv = [k \in ConvertKeys |-> Absent]
    /\ key = ""
    /\ converted = NotConverted

\* no child process
NoChild == [running |-> FALSE, pid |-> 0, prefix |-> <<>>]

\* no process monitor in Go is running
MonOff ==
    /\ monKind = "none"
    /\ monLine = "off"
    /\ monFlag = <<>>
    /\ monPid = 0
    /\ monPrefix = <<>>
    /\ child = NoChild
    /\ spawned = 0

\* none of the programs that are no exporters is running
ToolsOff == ShOff /\ MonOff /\ QuotaShOff /\ ConvertOff

\* no exporter is running
ExporterOff ==
    /\ kind = "none"
    /\ contentType = ""
    /\ alive = FALSE
    /\ now = 1
    /\ mutex = 0
    /\ pc = [p \in Pullers |-> "idle"]
    /\ scrapeFailures = 0
    /\ last = NoCycle
    /\ started = 0
    /\ fetches = 0
    /\ completed = 0
    /\ renewClientInterval = 0
    /\ Client = NoClient
    /\ certs = FALSE
    /\ Expire = 0
    /\ load = "none"
    /\ firstSeen = NotSeen

Init ==
    /\ kind \in Kinds
    /\ contentType \in ContentTypes
    /\ (kind # "http" => contentType = "")
    /\ alive = TRUE
    /\ now = 1
    /\ mutex = 0
    /\ pc = [p \in Pullers |-> "idle"]
    /\ scrapeFailures = 0
    /\ last = NoCycle
    /\ started = 0
    /\ fetches = 0
    /\ completed = 0
    /\ renewClientInterval \in (IF kind = "http" THEN Intervals ELSE {0})
    /\ Client \in (IF kind \in StartupClientKinds
                   THEN {HttpClientOf(1, c, FALSE) : c \in BOOLEAN}
                   ELSE {NoClient})
    /\ certs = Client.cert
    /\ Expire = 0
    /\ load = "none"
    /\ firstSeen = NotSeen
    /\ ToolsOff

\* the exporters that read the clock (time.Now().Unix())
ClockKinds == {"http", "quota", "openstack"}

\* a second passes on the clock the exporter reads (the clock starts after
\* the epoch)
Tick ==
    /\ alive
    /\ kind \in ClockKinds
    /\ now < MaxTime
    /\ now' = now + 1
    /\ UNCHANGED <<toolVars, kind, contentType, alive, mutex, pc, scrapeFailures, last,
                   started, fetches, completed, clientVars, firstSeen>>

\* A pull request arrives: the handler calls Collect (an exporter), or
\* getResult, which starts with the fetch (the relay).
Pull(p) ==
    /\ alive
    /\ pc[p] = "idle"
    /\ started < MaxPulls
    /\ started' = started + 1
    /\ pc' = [pc EXCEPT ![p] = IF kind \in Collectors THEN "lock" ELSE "fetch"]
    /\ UNCHANGED <<toolVars, kind, contentType, alive, now, mutex, scrapeFailures, last,
                   fetches, completed, clientVars, firstSeen>>

\* a Lock that never waits
MutexAlwaysFree == TRUE

\* sync.Mutex.Lock returns when no one holds the mutex
MutexFree == mutex = 0

\* e.mutex.Lock()
Lock(p) ==
    /\ alive
    /\ pc[p] = "lock"
    /\ MutexFree
    /\ mutex' = p
    /\ pc' = [pc EXCEPT ![p] = "fetch"]
    /\ UNCHANGED <<toolVars, kind, contentType, alive, now, scrapeFailures, last,
                   started, fetches, completed, clientVars, firstSeen>>

\* a cache that expires a second early
ExpiredEarly == Expire <= now

\* h.Expire < time.Now().Unix()
Expired == Expire < now

\* HttpClientMgr.getHttpClient: a new client at every call when the interval
\* is not positive; else a new client, after the cached certificate is
\* dropped, when the expiry has passed, and the client kept otherwise
getHttpClient(usable) ==
    IF renewClientInterval <= 0
    THEN LET h == HttpClient(renewClientInterval, certs, usable, Client.serial + 1)
         IN  /\ Client' = h.client
             /\ certs' = h.cache
             /\ load' = h.load
             /\ UNCHANGED <<renewClientInterval, Expire>>
    ELSE IF Expired
    THEN LET h == HttpClient(renewClientInterval, FALSE, usable, Client.serial + 1)
         IN  /\ Client' = h.client
             /\ certs' = h.cache
             /\ load' = h.load
             /\ Expire' = now + renewClientInterval
             /\ UNCHANGED renewClientInterval
    ELSE /\ load' = "none"
         /\ UNCHANGED <<renewClientInterval, certs, Expire, Client>>

\* The request is sent to the source (client.Do, http.Get, command.Output,
\* os.Stat), in the http exporter with the client of getHttpClient, in the
\* cpy exporter with a new &http.Client{}.  An HTTP source may accept the
\* request and never answer.
Fetch(p) ==
    /\ alive
    /\ pc[p] = "fetch"
    /\ \E answers \in BOOLEAN :
          /\ answers \/ kind \in HttpKinds
          /\ pc' = [pc EXCEPT ![p] = IF answers THEN "inflight" ELSE "silent"]
    /\ fetches' = fetches + 1
    /\ last' = NoCycle
    /\ IF kind = "http" THEN \E usable \in BOOLEAN : getHttpClient(usable)
       ELSE IF kind = "cpy"
            THEN /\ Client' = HttpClientOf(Client.serial + 1, FALSE, FALSE)
                 /\ UNCHANGED <<renewClientInterval, certs, Expire, load>>
       ELSE UNCHANGED clientVars
    /\ UNCHANGED <<toolVars, kind, contentType, alive, now, mutex, scrapeFailures,
                   started, completed, firstSeen>>

\* the sample scrapeFailures.Collect(ch) sends
FailureSample(n) == Sample("scrape_failures", n)

\* a Collect that fetches again when collect has returned an error
AfterErrorRetry == "fetch"

\* where a pull goes when collect has returned an error: Collect returns
AfterError == "idle"

\* Collect from the return of collect with outcome o: the error branch and
\* the deferred Unlock. A panic in the goroutine that runs Collect, or
\* log.Fatal, ends the process.
EndCollect(p, r, o) ==
    LET crash == \/ o.panic
                 \/ o.fatal
                 \/ o.err /\ OnError(kind) \in {"nil", "fatal"}
        count == ~crash /\ o.err /\ OnError(kind) = "count"
        after == IF count THEN scrapeFailures + 1 ELSE scrapeFailures
        samples == IF count THEN Append(o.out, FailureSample(after)) ELSE o.out
    IN  /\ alive' = ~crash
        /\ scrapeFailures' = after
        /\ mutex' = IF crash THEN mutex ELSE 0
        /\ pc' = [pc EXCEPT ![p] = IF crash THEN "crashed"
                                   ELSE IF o.err THEN AfterError ELSE "idle"]
        /\ completed' = IF crash THEN completed ELSE completed + 1
        /\ last' = Cycle(p, r, samples, o.err, IF crash THEN 0 ELSE 200,
                         scrapeFailures, after, crash)

\* what a fetch at time t can receive: a response of the source, stamped
\* with the time the collector reads after it
Received(k, t) ==
    IF k \in {"quota", "openstack"}
    THEN {[r EXCEPT !.now = t] : r \in Responses(k)}
    ELSE Responses(k)

\* samples of metrics that add the value of a cycle to what the cycles
\* answered before have left
Accumulated(out) ==
    [i \in 1..Len(out) |-> [out[i] EXCEPT !.v = @ + completed]]

\* a Respond whose metrics keep their values from one cycle to the next
RespondAccumulating(p) ==
    /\ alive
    /\ kind \in Collectors
    /\ pc[p] = "inflight"
    /\ \E r \in Received(kind, now) :
         \E o \in collect(kind, contentType, r) :
            EndCollect(p, r, [o EXCEPT !.out = Accumulated(@)])
    /\ firstSeen' = Remember(last')
    /\ UNCHANGED <<toolVars, kind, contentType, now, started, fetches, clientVars>>

\* The source answers: collect maps the response and sends the samples, and
\* Collect returns.
Respond(p) ==
    /\ alive
    /\ kind \in Collectors
    /\ pc[p] = "inflight"
    /\ \E r \in Received(kind, now) :
         \E o \in collect(kind, contentType, r) : EndCollect(p, r, o)
    /\ firstSeen' = Remember(last')
    /\ UNCHANGED <<toolVars, kind, contentType, now, started, fetches, clientVars>>

\* The source has not answered within the Timeout of the client: client.Do
\* returns an error, and collect goes on as for any transport error.
Timeout(p) ==
    /\ alive
    /\ kind \in Collectors
    /\ pc[p] = "silent"
    /\ Client.timeout
    /\ LET r == TransportError
       IN  \E o \in collect(kind, contentType, r) : EndCollect(p, r, o)
    /\ firstSeen' = Remember(last')
    /\ UNCHANGED <<toolVars, kind, contentType, now, started, fetches, clientVars>>

\* getResult of the relay: the source's answer is passed on, or 404
getResult(p) ==
    /\ alive
    /\ kind = "pingpong"
    /\ pc[p] = "inflight"
    /\ \E r \in Received(kind, now) :
         last' = Cycle(p, r, <<>>, FALSE, getResultStatus(r),
                       scrapeFailures, scrapeFailures, FALSE)
    /\ pc' = [pc EXCEPT ![p] = "idle"]
    /\ completed' = completed + 1
    /\ UNCHANGED <<toolVars, kind, contentType, alive, now, mutex, scrapeFailures,
                   started, fetches, clientVars, firstSeen>>

Next ==
    \/ Tick
    \/ \E p \in Pullers : Pull(p)
    \/ \E p \in Pullers : Lock(p)
    \/ \E p \in Pullers : Fetch(p)
    \/ \E p \in Pullers : Respond(p)
    \/ \E p \in Pullers : Timeout(p)
    \/ \E p \in Pullers : getResult(p)

Spec == Init /\ [][Next]_vars

\* The scheduler runs every goroutine that can take a step, a source that
\* answers does answer, and a Timeout that is set does fire.
LiveSpec ==
    /\ Spec
    /\ \A p \in Pullers :
          /\ WF_vars(Lock(p)) /\ WF_vars(Fetch(p)) /\ WF_vars(Respond(p))
          /\ WF_vars(Timeout(p)) /\ WF_vars(getResult(p))

\* ------------------------------------------------------ process_monitor.sh
\* The script is started with a pattern and a prefix, on a machine where no
\* process_exporter runs yet.
ShInit ==
    /\ ExporterOff
    /\ target \in 0..MaxPid
    /\ shPrefix \in Prefixes
    /\ exporters = NoExporters
    /\ shLine = "find"
    /\ shPid = 0
    /\ MonOff
    /\ QuotaShOff
    /\ ConvertOff

\* pid=`ps auxw | grep "$pat" | ...`; if [ -z "$pid" ]: sleep and continue
ShFind ==
    /\ shLine = "find"
    /\ shPid' = target
    /\ shLine' = IF target = 0 THEN "sleep" ELSE "check"
    /\ UNCHANGED <<exporterVars, quotaShVars, convertVars, monVars, target, exporters, shPrefix>>

\* out=`ps auxw | grep "process_exporter -pid $pid -prefix $prefix" | ...`;
\* if [ -n "$out" ]: sleep and continue
ShCheck ==
    /\ shLine = "check"
    /\ shLine' = IF \E c \in CommandLines :
                       Running(c) /\ GrepExporter(c, shPid, shPrefix)
                 THEN "sleep" ELSE "kill"
    /\ UNCHANGED <<exporterVars, quotaShVars, convertVars, monVars, target, exporters, shPid, shPrefix>>

\* out=`ps auxw | grep "process_exporter -pid [0-9]* -prefix $prefix" | ...`;
\* if [ -n "$out" ]: kill -9 every pid of $out
ShKill ==
    /\ shLine = "kill"
    /\ exporters' = [c \in CommandLines |->
                        IF GrepAnyPid(c, shPrefix) THEN 0 ELSE exporters[c]]
    /\ shLine' = "start"
    /\ UNCHANGED <<exporterVars, quotaShVars, convertVars, monVars, target, shPid, shPrefix>>

\* nohup process_exporter -pid $pid -prefix $prefix ... &
ShStart ==
    /\ shLine = "start"
    /\ LET c == [pid |-> shPid, prefix |-> shPrefix]
       IN  exporters' = [exporters EXCEPT ![c] = @ + 1]
    /\ shLine' = "sleep"
    /\ UNCHANGED <<exporterVars, quotaShVars, convertVars, monVars, target, shPid, shPrefix>>

\* sleep $interval, and the next iteration of while :
ShSleep ==
    /\ shLine = "sleep"
    /\ shLine' = "find"
    /\ UNCHANGED <<exporterVars, quotaShVars, convertVars, monVars, target, exporters, shPid, shPrefix>>

\* the monitored process ends, starts, or is started again with a new pid
TargetChanges ==
    /\ shLine # "off" \/ monLine # "off"
    /\ target' \in (0..MaxPid) \ {target}
    /\ UNCHANGED <<exporterVars, quotaShVars, convertVars, monVars, exporters, shLine, shPid, shPrefix>>

\* a process_monitor.sh that runs with another prefix starts its
\* process_exporter
OtherMonitorStarts ==
    /\ shLine # "off"
    /\ \E c \in CommandLines :
          /\ c.prefix # shPrefix
          /\ ~Running(c)
          /\ exporters' = [exporters EXCEPT ![c] = 1]
    /\ UNCHANGED <<exporterVars, quotaShVars, convertVars, monVars, target, shLine, shPid, shPrefix>>

\* a process_exporter ends
ExporterExits ==
    /\ shLine # "off"
    /\ \E c \in CommandLines :
          /\ Running(c)
          /\ exporters' = [exporters EXCEPT ![c] = @ - 1]
    /\ UNCHANGED <<exporterVars, quotaShVars, convertVars, monVars, target, shLine, shPid, shPrefix>>

ShNext ==
    \/ ShFind
    \/ ShCheck
    \/ ShKill
    \/ ShStart
    \/ ShSleep
    \/ TargetChanges
    \/ OtherMonitorStarts
    \/ ExporterExits

ShSpec == ShInit /\ [][ShNext]_vars

\* ------------------------------------------- process_monitor.go, part_004
\* the number of children the model lets a monitor start
MaxChildren == 2

\* the two process monitors in Go: process_monitor.go and the older one
MonKinds == {"new", "old"}

\* the prefix findProcess makes up when the -prefix flag is empty
ProcessPrefix(pid) == <<"process_", pid>>

\* findProcess of process_monitor.go on a ps listing in which the pattern
\* matches the process t (0: no line, and the pipeline exits non-zero);
\* parses tells whether pieces[1], the text after the first blank of the
\* listing, is the pid (it is empty when ps pads the user column)
findProcess(t, flag, parses) ==
    IF t = 0 \/ ~parses THEN [pid |-> 0, prefix |-> flag]
    ELSE [pid |-> t, prefix |-> IF flag = <<>> THEN ProcessPrefix(t) ELSE flag]

\* findProcess of the older monitor: every path returns 0, prefix
findProcessOld(t, flag, parses) == [pid |-> 0, prefix |-> flag]

\* checkProcess of the older monitor
checkProcess(t) == t # 0

\* process, err := os.FindProcess(pid): on Unix err is nil for every pid
FindProcessFails(pid) == FALSE

MonInit ==
    /\ ExporterOff
    /\ QuotaShOff
    /\ ConvertOff
    /\ ShIdle
    /\ target \in 0..MaxPid
    /\ monKind \in MonKinds
    /\ monFlag \in {<<>>, <<"d">>}
    /\ monLine = "find"
    /\ monPid = 0
    /\ monPrefix = <<>>
    /\ child = NoChild
    /\ spawned = 0

\* the head of the loop of monitor: findProcess, and the condition under
\* which start is called (err == nil after os.FindProcess; in the older
\* monitor !checkProcess(pat))
MonFind ==
    /\ monLine = "find"
    /\ \E parses \in BOOLEAN :
          LET f == IF monKind = "new" THEN findProcess(target, monFlag, parses)
                   ELSE findProcessOld(target, monFlag, parses)
              starts == IF monKind = "new" THEN ~FindProcessFails(f.pid)
                        ELSE ~checkProcess(target)
          IN  /\ monPid' = f.pid
              /\ monPrefix' = f.prefix
              /\ monLine' = IF starts THEN "start" ELSE "sleep"
    /\ UNCHANGED <<exporterVars, quotaShVars, convertVars, shVars, monKind, monFlag, child, spawned>>

\* start: exec.Command("process_exporter", "-pid", pid, "-prefix", prefix)
\* and cmd.Run(), which returns at once when the program cannot be started
MonStart ==
    /\ monLine = "start"
    /\ spawned < MaxChildren
    /\ \E started_ \in BOOLEAN :
          IF started_
          THEN /\ child' = [running |-> TRUE, pid |-> monPid, prefix |-> monPrefix]
               /\ spawned' = spawned + 1
               /\ monLine' = "run"
          ELSE /\ child' = NoChild
               /\ spawned' = spawned
               /\ monLine' = "sleep"
    /\ UNCHANGED <<exporterVars, quotaShVars, convertVars, shVars, monKind, monFlag, monPid, monPrefix>>

\* the child exits and cmd.Run() returns
MonChildExits ==
    /\ monLine = "run"
    /\ child' = NoChild
    /\ monLine' = "sleep"
    /\ UNCHANGED <<exporterVars, quotaShVars, convertVars, shVars, monKind, monFlag, monPid, monPrefix,
                   spawned>>

\* time.Sleep(sleep), and the next iteration of for
MonSleep ==
    /\ monLine = "sleep"
    /\ monLine' = "find"
    /\ UNCHANGED <<exporterVars, quotaShVars, convertVars, shVars, monKind, monFlag, monPid, monPrefix,
                   child, spawned>>

MonNext ==
    \/ MonFind
    \/ MonStart
    \/ MonChildExits
    \/ MonSleep
    \/ TargetChanges

MonSpec == MonInit /\ [][MonNext]_vars

\* ------------------------------------------------------ openstack/quota.sh
\* main has started the five functions in the background, in a directory
\* without temporary files
QuotaShInit ==
    /\ ExporterOff
    /\ ShOff
    /\ MonOff
    /\ ConvertOff
    /\ fnStep = [fn \in DOMAIN Functions |-> 1]
    /\ tmpFiles = [f \in TempFiles |-> ""]
    /\ printed = [k \in MetricKeys |-> 0]
    /\ foreign = FALSE
    /\ mainLine = "wait"

\* the function fn has run its last statement
Finished(fn) == fnStep[fn] > Len(Functions[fn])

\* The function fn runs its next statement.  A command that fails prints an
\* error and the next statement runs, with one exception: the loop computes
\* $((cpus_used + $(grep "$flavor_type" <$flavors_list | cut ...) * n)), and
\* when the grep finds no line or several lines for the flavor of an
\* instance the arithmetic expansion is a syntax error, on which bash
\* abandons the whole function (found = FALSE).
FunctionStep(fn) ==
    /\ mainLine = "wait"
    /\ ~Finished(fn)
    /\ LET st == Functions[fn][fnStep[fn]]
       IN  /\ \E found \in IF st.op = "while" THEN BOOLEAN ELSE {TRUE} :
                 fnStep' = [fnStep EXCEPT ![fn] =
                               IF found THEN @ + 1 ELSE Len(Functions[fn]) + 1]
           /\ tmpFiles' =
                 [f \in TempFiles |->
                     IF f \notin st.files THEN tmpFiles[f]
                     ELSE IF st.op = "rm" THEN ""
                     ELSE IF st.op = ">" /\ tmpFiles[f] = "" THEN fn
                     ELSE tmpFiles[f]]
           /\ printed' = IF st.op = "echo"
                         THEN [printed EXCEPT ![st.key] = @ + 1] ELSE printed
           /\ foreign' =
                 \/ foreign
                 \/ \E f \in st.files :
                        IF st.op = "rm" THEN tmpFiles[f] # fn ELSE tmpFiles'[f] # fn
    /\ UNCHANGED <<exporterVars, shVars, monVars, convertVars, mainLine>>

\* wait returns when every background function has finished, and so do
\* main and the script
MainReturns ==
    /\ mainLine = "wait"
    /\ \A fn \in DOMAIN Functions : Finished(fn)
    /\ mainLine' = "returned"
    /\ UNCHANGED <<exporterVars, shVars, monVars, convertVars, fnStep, tmpFiles, printed, foreign>>

QuotaShNext ==
    \/ \E fn \in DOMAIN Functions : FunctionStep(fn)
    \/ MainReturns

QuotaShSpec == QuotaShInit /\ [][QuotaShNext]_vars

\* ------------------------------------------------------- convert (part_001)
\* convert is about to be called with a map and a key
ConvertInit ==
    /\ ExporterOff
    /\ ShOff
    /\ MonOff
    /\ QuotaShOff
    /\ srv \in [ConvertKeys -> ConvertCells]
    /\ key \in ConvertKeys
    /\ converted = NotConverted

\* r := srv[key]; switch v := r.(type) {...}
ConvertCall ==
    /\ ~converted.returned
    /\ converted' = [returned |-> TRUE, v |-> convert(srv[key])]
    /\ UNCHANGED <<exporterVars, shVars, monVars, quotaShVars, srv, key>>

ConvertSpec == ConvertInit /\ [][ConvertCall]_vars

\* ------------------------------------------------------------------ claims
\* the pulls that have issued the fetch of their cycle
Fetched == {p \in Pullers : pc[p] \in {"inflight", "silent", "crashed"}}

\* a cycle has ended (by returning or by ending the process) and no later
\* fetch was issued
Ended == last.p # 0

\* the cycle that ended does not hold the mutex any more: the mutex is free,
\* or a later pull took it and is about to fetch
Released == mutex = last.p => pc[last.p] = "fetch"

\* C1: in every exporter that implements Collect, at most one cycle (the
\* body of collect) is executing at any instant, whatever the number of
\* concurrent pulls: a pull's fetch does not start while another pull holds
\* the exporter mutex.
C1_OneCycleAtATime ==
    kind \in Collectors =>
        /\ Cardinality(InCycle) <= 1
        /\ \A p \in InCycle : mutex = p

\* C1 happens: a second pull waits at the mutex while the first pull's fetch
\* is in flight
C1_Witness ==
    /\ kind \in {"http", "openstack"}
    /\ \E p, q \in Pullers : pc[p] = "inflight" /\ mutex = p /\ pc[q] = "lock"

\* C2: fetches are pull-driven and never retried: every pull that got past
\* the mutex has issued exactly one fetch, failed or not, so n answered pulls
\* have issued n fetches; and the samples of a cycle are those collect
\* computes from the one response of that cycle.
C2_OneFetchPerPull ==
    /\ fetches = completed + Cardinality(Fetched)
    /\ fetches <= started
    /\ (Ended /\ kind \in Collectors) =>
          \E o \in collect(kind, contentType, last.resp) :
             \/ last.out = o.out
             \/ last.out = Append(o.out, FailureSample(last.after))

\* C2 happens: two pulls were answered, the second after a failed fetch, and
\* two fetches were issued
C2_Witness ==
    /\ kind = "openstack"
    /\ completed = 2
    /\ fetches = 2
    /\ Ended /\ last.err /\ last.answer = 200

\* the fetch of the cycle failed: a transport error, a status other than 200,
\* a command that exited non-zero, or a body (an output) that the exporter
\* of kind k cannot decode
ScrapeFailed(k, r) ==
    \/ r.class = "transport"
    \/ r.class = "http" /\ r.code # 200
    \/ r.class = "cmd" /\ r.code # 0
    \/ /\ r.class \in {"http", "cmd"}
       /\ k \in HttpKinds \cup CmdKinds
       /\ k # "http"
       /\ r.top \notin (IF k = "openstack" THEN {"obj", "null", "empty"}
                        ELSE {"obj", "null"})

\* C3: a single failed scrape never terminates the exporter process: when
\* the fetch of a cycle fails, the process stays alive (and so answers the
\* next pull).
C3_FailedScrapeKeepsProcess ==
    (Ended /\ ScrapeFailed(kind, last.resp)) => (alive /\ ~last.crashed)

\* the das2go and the wmcore exporters, in their two versions each
Das2goKinds == {"das2go", "das2go2"}
WmcoreKinds == {"wmcore1", "wmcore"}

\* C4: in the das2go and wmcore exporters, every cycle whose collect returns
\* an error increments the failure counter by exactly one, and Collect
\* returns normally with the mutex released.
C4_ErrorCounted ==
    (Ended /\ kind \in Das2goKinds \cup WmcoreKinds /\ last.err) =>
        /\ last.after = last.before + 1
        /\ ~last.crashed
        /\ last.answer = 200
        /\ Released

\* the source answered the fetch of the last cycle with HTTP 503
Got503 == Ended /\ kind = "http" /\ last.resp.class = "http" /\ last.resp.code = 503

SourceFailing ==
    \/ last.resp.class = "transport"
    \/ last.resp.class = "http" /\ last.resp.code # 200
    \/ last.resp.class = "cmd" /\ last.resp.code # 0

\* C6: while the source is unreachable or failing, a pull against an
\* exporter's endpoint, the relay included, is never answered with an HTTP
\* error status.
C6_NoErrorStatus ==
    (Ended /\ SourceFailing /\ last.answer # 0) => last.answer < 400

\* the value the status sample of the http exporter is claimed to have: 0
\* for a transport failure or a JSON body that cannot be decoded, the status
\* code otherwise
ClaimedStatus(ct, r) ==
    IF r.class = "transport" THEN 0
    ELSE IF ct = "application/json" /\ r.code = 200
            /\ r.top \notin {"obj", "null", "arr"} THEN 0
    ELSE r.code

\* C7: every cycle of the http exporter sends exactly one status sample: 0
\* when the request fails at transport level or a JSON body cannot be
\* decoded, the HTTP status code otherwise (200 for a JSON object received
\* with -contentType application/json).
C7_OneStatusSample ==
    (Ended /\ kind = "http") =>
        last.out = <<Sample("status", ClaimedStatus(contentType, last.resp))>>

\* the last cycle received a 200 response whose body is a JSON object
GotPage == Ended /\ last.resp.class = "http" /\ last.resp.code = 200
           /\ last.resp.top = "obj"

\* the last cycle ran to its end: collect returned no error, nothing ended
\* the process, and the pull was answered
Completed == ~last.crashed /\ ~last.err /\ alive /\ last.answer = 200

\* the keys above a nested key of the das2go page
Das2goParents(k) ==
    IF k \in {"Memory.Virtual.usedPercent", "Memory.Virtual.total",
              "Memory.Virtual.used", "Memory.Virtual.free"}
        THEN {"Memory", "Memory.Virtual"}
    ELSE IF k = "Memory.Swap.usedPercent" THEN {"Memory", "Memory.Swap"}
    ELSE IF k \in {"MemStats.Sys", "MemStats.Alloc", "MemStats.TotalAlloc",
                   "MemStats.HeapSys", "MemStats.StackSys"} THEN {"MemStats"}
    ELSE IF k \in {"Load.load1", "Load.load5", "Load.load15"} THEN {"Load"}
    ELSE {}

\* the key is absent from the page, at its own level or above
AbsentAt(s, k) == \E j \in {k} \cup Das2goParents(k) : s.f[j].t = "absent"

\* every key of the das2go page s that is present holds a value of the type
\* the exporter expects
Das2goWellTyped(s) ==
    /\ \A k \in Das2goPaths : s.f[k].t \in {"absent", Das2goFull.f[k].t}
    /\ AllFloats(s.cpu)
    /\ \A i \in 1..Len(s.conns) : s.conns[i].t = "obj"

\* the scalar metric each number of the das2go page is published as
Das2goMetric ==
    "getCalls" :> "get_calls" @@ "postCalls" :> "post_calls" @@
    "getRequests" :> "get_requests" @@ "postRequests" :> "post_requests" @@
    "Uptime" :> "uptime" @@ "Memory.Virtual.usedPercent" :> "memory_percent" @@
    "Memory.Virtual.total" :> "memory_total" @@
    "Memory.Virtual.free" :> "memory_free" @@
    "Memory.Virtual.used" :> "memory_used" @@ "MemStats.Sys" :> "memstats_sys" @@
    "MemStats.Alloc" :> "memstats_alloc" @@
    "MemStats.TotalAlloc" :> "memstats_tot_alloc" @@
    "MemStats.HeapSys" :> "memstats_heap_sys" @@
    "MemStats.StackSys" :> "memstats_stack_sys" @@
    "Memory.Swap.usedPercent" :> "swap_percent" @@ "Load.load1" :> "load1" @@
    "Load.load5" :> "load5" @@ "Load.load15" :> "load15" @@
    "NGo" :> "num_go_routines"

\* the scalar metrics an exporter of kind k declares: those it sends without
\* a label for the full page
Scalars(k) ==
    LET full == IF k = "das2go" THEN mapDas2go(Das2goFull).out
                ELSE mapDas2go2(Das2goFull).out
    IN  {full[i].name : i \in {j \in 1..Len(full) : full[j].label = ""}}

\* the positions of the samples of the given name in a sequence of samples
Named(samples, name) == {i \in 1..Len(samples) : samples[i].name = name}

\* C8: for every das2go page in which declared keys are absent, at top level
\* or nested, collect still sends every declared scalar metric exactly once,
\* with the value 0 for each absent key, and the mapping never fails.
C8_AbsentFieldsAreZero ==
    (GotPage /\ kind \in Das2goKinds /\ Das2goWellTyped(last.resp.snap)) =>
        /\ Completed
        /\ \A name \in Scalars(kind) : Cardinality(Named(last.out, name)) = 1
        /\ \A k \in DOMAIN Das2goMetric :
              (Das2goMetric[k] \in Scalars(kind) /\ AbsentAt(last.resp.snap, k)) =>
                  \A i \in Named(last.out, Das2goMetric[k]) :
                      last.out[i].v = 0 /\ last.out[i].den = 1

\* C9: for the wmcore exporter, a 200 response whose body is {} (or has an
\* empty or missing result list) yields a completed cycle in which
\* memory_percent and every other declared metric is published as 0.
C9_EmptyPageIsZero ==
    (GotPage /\ kind = "wmcore"
       /\ \/ last.resp.snap.f["result"].t = "absent"
          \/ last.resp.snap.f["result"] = Arr(0)) =>
        /\ Completed
        /\ Len(last.out) = Len(mapWmcore(WmcoreFull).out)
        /\ \A i \in 1..Len(last.out) : last.out[i].v = 0
        /\ Cardinality(Named(last.out, "memory_percent")) = 1

\* the full page of an exporter of kind k, and the keys it is read at
FullPage(k) ==
    IF k \in Das2goKinds THEN Das2goFull
    ELSE IF k = "wmcore1" THEN Wmcore1Full ELSE WmcoreFull
PagePaths(k) ==
    IF k \in Das2goKinds THEN Das2goPaths
    ELSE IF k = "wmcore1" THEN Wmcore1Paths ELSE WmcorePaths

\* the keys of the page s that hold a value of another type than expected
Mistyped(k, s) ==
    {j \in PagePaths(k) : s.f[j].t \notin {"absent", FullPage(k).f[j].t}}

\* the page s without the keys that hold a value of another type
Cleared(k, s) ==
    [s EXCEPT !.f = [j \in DOMAIN s.f |->
                        IF j \in Mistyped(k, s) THEN Absent ELSE s.f[j]]]

\* C10: for every page in which a declared key holds a value of the wrong
\* type, the mapper of the das2go and wmcore exporters does not raise or
\* abort the cycle: the samples are those of the page without that value,
\* 0 for the key and the right values for the others.
C10_WrongTypeIsZero ==
    (GotPage /\ kind \in Das2goKinds \cup WmcoreKinds
       /\ Mistyped(kind, last.resp.snap) # {}) =>
        /\ Completed
        /\ last.out # <<>>
        /\ \E o \in collect(kind, contentType,
                            [last.resp EXCEPT !.snap = Cleared(kind, @)]) :
              last.out = o.out

\* the samples of a sequence that carry the count of the connections in the
\* given state: total_connections, listen_connections and
\* established_connections in part_003, connections{state=...} in
\* das2go_exporter.go
ConnSamples(k, samples, state) ==
    {i \in 1..Len(samples) :
        IF k = "das2go2" THEN samples[i].name = state \o "_connections"
        ELSE samples[i].name = "connections" /\ samples[i].label = state}

\* the last cycle of a das2go exporter received a page with a Connections list
GotConnections ==
    /\ GotPage /\ kind \in Das2goKinds
    /\ last.resp.snap.f["Connections"].t = "arr"

\* C11: for any connection list of a das2go page, total is the number of
\* entries, established the number of entries with status ESTABLISHED, listen
\* the number with status LISTEN (so established + listen <= total), whatever
\* the order of the entries.
C11_ConnectionsCounted ==
    GotConnections =>
        LET conns == last.resp.snap.conns
            Count(state) ==
                IF state = "total" THEN Len(conns)
                ELSE IF state = "listen" THEN CountStatus(conns, "LISTEN")
                ELSE CountStatus(conns, "ESTABLISHED")
        IN  /\ Completed
            /\ \A state \in {"total", "listen", "established"} :
                  /\ Cardinality(ConnSamples(kind, last.out, state)) = 1
                  /\ \A i \in ConnSamples(kind, last.out, state) :
                        last.out[i].v = Count(state)

\* the last cycle of the das2go exporter that declares cores_percent
\* (part_003) received a page with a non-empty CPU array of numbers, and the
\* rest of the page did not abort the mapping
GotCores ==
    /\ GotPage /\ kind = "das2go2"
    /\ last.resp.snap.f["CPU"].t = "arr"
    /\ Len(last.resp.snap.cpu) > 0
    /\ AllFloats(last.resp.snap.cpu)
    /\ Completed

IsCoreSample(x) == x.name = "cores_percent"

\* C12: for a non-empty CPU array of n numbers the das2go exporter sends
\* exactly n cores_percent samples, the i-th (0-based, in input order)
\* labelled core-i with the i-th value, and one cpu_percent sample equal to
\* the arithmetic mean of the n values.
C12_CoresAndMean ==
    GotCores =>
        LET cpu == last.resp.snap.cpu
            n == Len(cpu)
            sent == SelectSeq(last.out, IsCoreSample)
        IN  /\ Len(sent) = n
            /\ \A i \in 1..n :
                  /\ sent[i].label = "core-" \o ToString(i - 1)
                  /\ sent[i].v = cpu[i].n /\ sent[i].den = 1
            /\ Cardinality(Named(last.out, "cpu_percent")) = 1
            /\ \A j \in Named(last.out, "cpu_percent") :
                  /\ last.out[j].den # 0
                  /\ last.out[j].v * n = last.out[j].den * SumCells(cpu)

\* C12 happens: the page with the cores [10, 20, 30] was mapped; the mean
\* sent is 60/3
C12_Witness ==
    /\ GotCores
    /\ last.resp.snap.cpu = <<Num(10), Num(20), Num(30)>>
    /\ \E j \in Named(last.out, "cpu_percent") :
          last.out[j].v = 60 /\ last.out[j].den = 3

\* the keys of the flat page
FlatKeys == {"uptime", "cpu_percent", "memory_percent"}

\* the last cycle of the older wmcore exporter received a page that holds
\* uptime, cpu_percent and memory_percent, and nothing else
GotFlat ==
    /\ GotPage /\ kind = "wmcore1"
    /\ \A k \in Wmcore1Paths :
          IF k \in FlatKeys THEN last.resp.snap.f[k].t = "num"
          ELSE last.resp.snap.f[k].t = "absent"

ScriptFailed ==
    /\ Ended /\ kind = "openstack" /\ last.resp.class = "cmd"
    /\ (last.resp.code # 0 \/ last.resp.top = "invalid")

C15_FetchReturns ==
    \A p \in Pullers : (pc[p] = "silent") ~> (pc[p] # "silent")

\* C16: the exporter has no terminal state: after every cycle, successful or
\* failed, the process is alive, the pull that ran the cycle has left
\* Collect with the mutex released, and a later pull can take the mutex.
C16_BackToIdle ==
    (Ended /\ kind \in Collectors) =>
        /\ alive
        /\ pc[last.p] \in {"idle", "lock", "fetch"}
        /\ Released

\* a step in which a pull of the http exporter, run with a positive
\* -renewClientInterval, asks getHttpClient for its client
RenewingFetch ==
    /\ kind = "http"
    /\ renewClientInterval > 0
    /\ fetches' = fetches + 1

\* C17: with renewClientInterval = I > 0, a pull at a time up to the expiry
\* (the time of the latest build + I) reuses the client and the cached
\* certificate unchanged; a pull after the expiry drops the cached
\* certificate, loads the credential anew, builds a new client and sets the
\* expiry to its own time + I.  So two builds are more than I seconds apart
\* and the client a pull uses has not expired.
C17_CacheExpiry ==
    [][RenewingFetch =>
          /\ IF now <= Expire
             THEN /\ Client' = Client /\ certs' = certs /\ Expire' = Expire
                  /\ load' = "none"
             ELSE /\ Client'.serial = Client.serial + 1
                  /\ load' \in {"ok", "failed"}
                  /\ certs' = (load' = "ok")
                  /\ Client'.cert = certs'
                  /\ Expire' = now + renewClientInterval
                  /\ (Client.serial > 0 =>
                         now - (Expire - renewClientInterval) > renewClientInterval)
          /\ Expire' >= now]_vars

\* C17 happens: of three pulls, one has reused the client of an earlier one
\* and a later one has built the second client, after the expiry of the first
C17_Witness ==
    /\ kind = "http"
    /\ renewClientInterval > 0
    /\ fetches = 3
    /\ Client.serial = 2
    /\ Expire = now + renewClientInterval

\* C18: with renewClientInterval <= 0 the http exporter uses no proxy
\* credential: no pull loads or caches a certificate, the expiry is never
\* set, and every pull uses a client built for it, without certificate.
C18_NoCredentials ==
    (kind = "http" /\ renewClientInterval <= 0) =>
        /\ load = "none"
        /\ ~certs
        /\ Expire = 0
        /\ Client.serial = fetches
        /\ ~Client.cert

\* C18 happens: two pulls have fetched with renewClientInterval <= 0, the
\* second with the second client, after the clock has moved on
C18_Witness ==
    /\ kind = "http"
    /\ renewClientInterval <= 0
    /\ fetches = 2
    /\ Client.serial = 2
    /\ now > 1

\* the credential load of the latest fetch of the http exporter failed: no
\* usable proxy or certificate and key, with a positive interval
MissingCredential == kind = "http" /\ renewClientInterval > 0 /\ load = "failed"

Declared(out) == SelectSeq(out, LAMBDA x : x.name # "scrape_failures")

\* the last cycle was answered on the page an earlier answered cycle had
SamePageAgain ==
    /\ Ended /\ ~last.crashed
    /\ firstSeen.seen
    /\ last.resp \in FirstPages(kind)

CycleEnds == last.p = 0 /\ last'.p # 0

\* C21: in the openstack quota exporter the failure counter counts the
\* cycles in which run returned an error: it starts at 0, a cycle that ends
\* with an error adds exactly one, and no other step, of this pull or of a
\* concurrent one, changes it.
C21_FailureCounterExact ==
    [][kind = "openstack" =>
          IF CycleEnds
          THEN scrapeFailures' = scrapeFailures + (IF last'.err THEN 1 ELSE 0)
          ELSE scrapeFailures' = scrapeFailures]_vars

\* C21 happens: of three cycles of the openstack exporter two have failed and
\* the last one has not
C21_Witness ==
    /\ kind = "openstack"
    /\ completed = 3
    /\ scrapeFailures = 2
    /\ Ended /\ ~last.err /\ Len(last.out) > 0

\* C22: in the cpy and the das2go exporters no sample is sent before the
\* mapping of the cycle is complete: a cycle in which the extraction of a
\* field failed (collect returned an error, or a type assertion ended the
\* process) has sent no sample.
C22_NoSampleBeforeMappingEnds ==
    (Ended /\ kind \in {"cpy"} \cup Das2goKinds /\ (last.err \/ last.crashed)) =>
        last.out = <<>>

\* C23: the cached certificate, the client and the expiry of the http
\* exporter are read and refreshed only by the pull that holds the mutex of
\* the exporter, in its fetch; so no two pulls are in getHttpClient at once.
C23_RefreshUnderMutex ==
    [][(kind = "http" /\ (clientVars' # clientVars \/ fetches' # fetches)) =>
          /\ mutex # 0
          /\ pc[mutex] = "fetch"
          /\ pc'[mutex] \in {"inflight", "silent"}
          /\ \A q \in Pullers \ {mutex} : pc'[q] = pc[q] /\ pc[q] # "fetch"]_vars

\* C23 happens: a pull has rebuilt the client after the expiry while another
\* pull was waiting for the mutex
C23_Witness ==
    /\ kind = "http"
    /\ renewClientInterval > 0
    /\ Client.serial = 2
    /\ Expire = now + renewClientInterval
    /\ mutex # 0
    /\ pc[mutex] \in {"inflight", "silent"}
    /\ \E q \in Pullers : pc[q] = "lock"

\* the samples of a cycle sent on the descriptor d
SentOn(d) == {i \in 1..Len(last.out) : last.out[i].name = d}

\* C24: in every successful cycle of the wmcore exporter that declares
\* uptime, memory_percent, cpu_percent, num_threads and num_fds, each
\* descriptor announced by Describe receives exactly one sample.
C24_OneSamplePerDescriptor ==
    (GotPage /\ kind = "wmcore1" /\ Completed) =>
        \A d \in DescribeWmcore1 : Cardinality(SentOn(d)) = 1

\* the codes eosAccess declares
EosCodes == {OkEOS, NoAccessToEOS, FailedToWriteTempfile, FailedToCloseTempfile}

\* C25: eosAccess is total over the outcomes of its file operations: for
\* every combination of stat, temporary file creation, write and close
\* succeeding or failing, the cycle of the eos exporter ends without a crash
\* and has sent one status sample that holds one of the four declared codes.
C25_EosAccessTotal ==
    (Ended /\ kind = "eos") =>
        /\ ~last.crashed /\ alive
        /\ \E c \in EosCodes : last.out = <<Sample("status", c)>>

\* the process_exporter that run with the prefix of the script
OwnExporters(e) == {c \in CommandLines : c.prefix = shPrefix /\ e[c] > 0}

\* C26: process_monitor.sh keeps at most one process_exporter for its
\* prefix, for the current pid of the pattern.  When the pattern matches no
\* process the iteration starts and kills nothing.  When it resolves to the
\* pid p, an exporter running for (p, prefix) is left alone and the iteration
\* ends; otherwise the exporters of the prefix with another pid are killed
\* and then one exporter is started for p.  The loop never exits.
C26_OneExporterPerPrefix ==
    [][/\ (shLine = "find" /\ shLine' # "find" /\ target = 0) =>
              (shLine' = "sleep" /\ exporters' = exporters)
       /\ (shLine = "check" /\ shLine' # "check") =>
              /\ exporters' = exporters
              /\ (shLine' = "sleep") <=>
                     [pid |-> shPid, prefix |-> shPrefix] \in OwnExporters(exporters)
              /\ shLine' \in {"sleep", "kill"}
       /\ (shLine = "kill" /\ shLine' # "kill") =>
              (shLine' = "start" /\ OwnExporters(exporters') = {})
       /\ (shLine = "start" /\ shLine' # "start") =>
              /\ shLine' = "sleep"
              /\ OwnExporters(exporters') = {[pid |-> shPid, prefix |-> shPrefix]}
              /\ exporters'[[pid |-> shPid, prefix |-> shPrefix]] = 1
       /\ (shLine # "off" => shLine' \in {"find", "check", "kill", "start", "sleep"})
      ]_vars

\* C27: the process monitor in Go runs the process_exporter child only in an
\* iteration in which findProcess found a process matching the pattern, and
\* passes the pid of that process to the child.
C27_ChildOnlyForFoundPid ==
    child.running => (child.pid # 0 /\ child.pid = monPid)

\* C28: in every interleaving of the five functions of openstack/quota.sh
\* each function reads and removes only files it has created itself, no key
\* is printed twice, and when the script returns all five functions have
\* finished, each of the 14 keys was printed exactly once and no temporary
\* file of the run is left.
C28_ParallelFunctionsIsolated ==
    /\ ~foreign
    /\ \A k \in MetricKeys : printed[k] <= 1
    /\ mainLine = "returned" =>
          /\ \A fn \in DOMAIN Functions : Finished(fn)
          /\ Cardinality(MetricKeys) = 14
          /\ \A k \in MetricKeys : printed[k] = 1
          /\ \A f \in TempFiles : tmpFiles[f] = ""

\* what holds of openstack/quota.sh in every interleaving and for every
\* input: no function touches a file of another one, no key is printed
\* twice, and the script returns only when the five functions are over
QuotaShIsolated ==
    /\ ~foreign
    /\ \A k \in MetricKeys : printed[k] <= 1
    /\ mainLine = "returned" => \A fn \in DOMAIN Functions : Finished(fn)

\* the last cycle of a das2go exporter received a page whose CPU field is
\* the empty array
GotNoCores ==
    /\ GotPage /\ kind \in {"das2go", "das2go2"}
    /\ last.resp.snap.f["CPU"] = Arr(0)
    /\ last.resp.snap.cpu = <<>>

\* C29: when the CPU field of the snapshot is present and is the empty
\* array, the das2go exporter completes the cycle, sends no per-core sample
\* and sends cpu_percent with the value 0, a number that is not the result
\* of a division by the zero core count.
C29_EmptyCpuArrayGivesZero ==
    GotNoCores =>
        /\ Completed
        /\ SelectSeq(last.out, IsCoreSample) = <<>>
        /\ Cardinality(Named(last.out, "cpu_percent")) = 1
        /\ \A j \in Named(last.out, "cpu_percent") :
              last.out[j].den # 0 /\ last.out[j].v = 0

\* the value is a number, of whatever Go type
IsNumber(c) == c.t \in {"num", "int", "float32"}

====
